---- MODULE Spec2Model ----
(***************************************************************************)
(* State-machine model of the ShieldAI (SmartAV) detection-and-response    *)
(* pipeline: the quarantine store (Security/Quarantine.cpp and the         *)
(* competing Security/Quarantine_impl.cpp), the AIDetector result cache    *)
(* (AI/AIDetector.cpp), the real-time monitor's producer/consumer          *)
(* machinery and its handling of one event (Core/RealTimeMonitor.cpp),     *)
(* the feature extractor (Core/FeatureExtractor.cpp and                    *)
(* Core/FeatureExtractor_impl.cpp), ScanEngine::ScanFile                   *)
(* (Core/ScanEngine.cpp), AIDetector::IsMalicious (AI/AIDetector.cpp and   *)
(* AI/AIDetector_impl.cpp), the monitor's exception list, the structural   *)
(* parsing of a PE buffer, the monitor's Start / Stop / AddWatchPath /     *)
(* RemoveWatchPath under concurrent callers, and the start and stop of a   *)
(* ScanEngine scan.                                                        *)
(*                                                                         *)
(* Each component has its own specification (SpecQ, SpecQI, SpecQConc,     *)
(* SpecCache, SpecMon, SpecMonFair, SpecEvent, SpecExtract, SpecScan,      *)
(* SpecVerdict, SpecExceptions, SpecParse, SpecLife, SpecScanControl);     *)
(* the variables of the other components are held at their initial         *)
(* values.                                                                 *)
(***************************************************************************)
EXTENDS Integers, Sequences, FiniteSets, TLC

(* ------------------------------------------------------------------ *)
(* Bounds of the model (not program constants).                        *)
(* ------------------------------------------------------------------ *)
\* number of UUIDs GenerateUUID may hand out in one run
MaxUuid == 5
\* number of caller threads that can get stuck on the index lock
MaxThreads == 2
\* number of QuarantineManager calls in one run
MaxCalls == 3

(* ------------------------------------------------------------------ *)
(* Generic helpers for functions with a dynamic domain (files on disk, *)
(* std::map).                                                          *)
(* ------------------------------------------------------------------ *)
Put(f, k, v) == [x \in (DOMAIN f) \cup {k} |-> IF x = k THEN v ELSE f[x]]

Del(f, k) == [x \in (DOMAIN f) \ {k} |-> f[x]]

EmptyMap == [x \in {} |-> 0]

(* ================================================================== *)
(*  Part 1.  QuarantineManager  (Security/Quarantine.cpp)              *)
(* ================================================================== *)

\* Path arguments a caller can pass.  "x.exe" is a relative path; the
\* process's current directory is C:\a, so it names the same file as
\* "C:\a\x.exe".  The two absolute paths share the file name x.exe.
PathInputs == {"x.exe", "C:\\a\\x.exe", "C:\\b\\x.exe"}

AbsPaths == {"C:\\a\\x.exe", "C:\\b\\x.exe"}

\* fs::absolute
Absolute(p) == IF p = "x.exe" THEN "C:\\a\\x.exe" ELSE p

\* File contents.
Contents == {"c1", "c2"}

\* In this part the user's files hold c1; c2 is what an artifact holds
\* after it was altered behind the manager's back.
UserContents == {"c1"}

\* A file's bytes: z tells whether they are the compressed form of c.
Plain(c) == [z |-> FALSE, c |-> c]

\* CalculateSHA256: a stub that ignores the file and returns a constant.
CalculateSHA256(data) == "stub_hash"

\* CompressFile / DecompressFile are declared in the class but defined
\* nowhere in the repository; they are modelled from the design text
\* ("optionally compress"; restore "decrypts (and decompresses)").
CompressFile(data) == [z |-> TRUE, c |-> data.c]

DecompressFile(data) == [z |-> FALSE, c |-> data.c]

\* EncryptFile: the body is a plain fs::copy_file of the source.
EncryptFile(data) == data

\* DecryptFile: a plain fs::copy_file as well.
DecryptFile(data) == data

\* Names of the user's files: <<absolute path, 0>> is the path itself,
\* <<absolute path, n>> the path with the suffix ".restored_<uuid n>".
DiskName(p) == <<p, 0>>

\* Names in the quarantine directory: <<uuid, suffix>>.
QName(u, sfx) == <<u, sfx>>

VARIABLES
    q_config,      \* m_config: encryptFiles, compressFiles, secureDeleteOriginal
    disk,          \* the user's files: name -> bytes
    qdir,          \* files in the quarantine directory: name -> bytes
    m_entries,     \* std::map quarantineId -> QuarantineEntry
    uuidCounter,   \* number of UUIDs handed out so far
    hungThreads,   \* callers blocked for ever on m_entriesMutex
    sharedStuck,   \* a blocked caller still holds m_entriesMutex in shared mode
    q_calls,       \* number of calls made so far (bounds the run)
    q_active,      \* history: absolute paths quarantined with SUCCESS and not yet
                   \* the subject of a RestoreFile / DeletePermanently call
    q_last         \* history: the last call, its arguments and its outcome

qvars == <<q_config, disk, qdir, m_entries, uuidCounter, hungThreads,
           sharedStuck, q_calls, q_active, q_last>>

NoCall == [op |-> "none", path |-> "", id |-> 0, result |-> "none",
           wasActive |-> FALSE, differs |-> FALSE, intact |-> TRUE,
           recordsFor |-> 0, failed |-> "none", added |-> FALSE,
           origKept |-> FALSE, recordLeft |-> FALSE, artLeft |-> FALSE]

QInit ==
    /\ q_config \in [encryptFiles : BOOLEAN, compressFiles : BOOLEAN,
                     secureDeleteOriginal : BOOLEAN]
    /\ disk = EmptyMap
    /\ qdir = EmptyMap
    /\ m_entries = EmptyMap
    /\ uuidCounter = 0
    /\ hungThreads = 0
    /\ sharedStuck = FALSE
    /\ q_calls = 0
    /\ q_active = {}
    /\ q_last = NoCall

\* FindEntryByOriginalPath: compares the stored originalPath with the
\* argument exactly as it was passed in.
FindEntryByOriginalPath(entries, originalPath) ==
    \E id \in DOMAIN entries : entries[id].originalPath = originalPath

\* Number of records whose originalPath is the absolute path a.
RecordsFor(entries, a) ==
    Cardinality({id \in DOMAIN entries : entries[id].originalPath = a})

\* The environment puts a file at an absolute path (a download, or the
\* malware dropping itself again).
QWriteFile(a, c) ==
    /\ DiskName(a) \notin DOMAIN disk
    /\ disk' = Put(disk, DiskName(a), Plain(c))
    /\ UNCHANGED <<q_config, qdir, m_entries, uuidCounter, hungThreads,
                   sharedStuck, q_calls, q_active, q_last>>

\* The environment alters the bytes of a quarantined artifact.
QTamper(n) ==
    /\ n \in DOMAIN qdir
    /\ n[2] = ""
    /\ \E id \in DOMAIN m_entries :
         /\ m_entries[id].quarantinePath = n[1]
         /\ qdir[n].c = m_entries[id].isolated
    /\ \E c \in Contents :
         /\ c # qdir[n].c
         /\ qdir' = [qdir EXCEPT ![n].c = c]
    /\ UNCHANGED <<q_config, disk, m_entries, uuidCounter, hungThreads,
                   sharedStuck, q_calls, q_active, q_last>>


\* What can go wrong inside one call (at most one fault per call):
\*   space    CheckDiskSpace reports too little room
\*   compress CompressFile returns false
\*   copy     fs::copy_file throws
\*   encrypt  EncryptFile returns false
\*   rename   fs::rename throws
\*   remove   fs::remove throws / SecureDelete returns false
\*   decrypt  DecryptFile returns false
\*   decompress DecompressFile returns false
\*   mkdir    fs::create_directories throws
QFaults == {"none", "space", "compress", "copy", "encrypt", "rename", "remove"}

RFaults == {"none", "mkdir", "decrypt", "decompress", "rename", "remove"}

DFaults == {"none", "remove"}

\* QuarantineFile(filePath, ...): the whole handler.  The result record
\* carries the new disk, quarantine directory and index.
\* A return from inside the try block before the record is stored (the
\* ENCRYPTION_FAILED return at 484-487, or the filesystem_error handler at
\* 521-524 for a throwing copy_file / rename): two GenerateUUID calls were
\* made, nothing else of the call's work is kept.
AbortLosingOriginal(same, result, step) ==
    [same EXCEPT !.result = result, !.uuids = 2, !.failed = step,
                 !.disk = EmptyMap]

AbortCall(same, result, step) ==
    [same EXCEPT !.result = result, !.uuids = 2, !.failed = step]

QuarantineOutcome(filePath, fault) ==
    LET a        == Absolute(filePath)
        src      == disk[DiskName(a)]
        id       == uuidCounter + 1
        pu       == uuidCounter + 2
        tmpName  == QName(pu, ".tmp")
        artName  == QName(pu, "")
        same     == [result |-> "", disk |-> disk, qdir |-> qdir,
                     entries |-> m_entries, uuids |-> 0, hang |-> FALSE, id |-> 0,
                     failed |-> "none"]
        zipped   == q_config.compressFiles /\ fault # "compress"
        tmpData  == IF zipped THEN CompressFile(src) ELSE src
        entry    == [quarantineId   |-> id,
                     originalPath   |-> a,
                     fileName       |-> "x.exe",
                     quarantinePath |-> pu,
                     originalHash   |-> CalculateSHA256(src),
                     isEncrypted    |-> q_config.encryptFiles,
                     isCompressed   |-> zipped,
                     isolated       |-> src.c]
        artData  == IF q_config.encryptFiles THEN EncryptFile(tmpData) ELSE tmpData
        withArt  == Put(qdir, artName, artData)
        withRec  == Put(m_entries, id, entry)
    IN
    IF DiskName(a) \notin DOMAIN disk
    THEN [same EXCEPT !.result = "FILE_NOT_FOUND"]
    ELSE IF FindEntryByOriginalPath(m_entries, filePath)
    THEN [same EXCEPT !.result = "ALREADY_QUARANTINED"]
    ELSE IF fault = "space"
    THEN [same EXCEPT !.result = "INSUFFICIENT_SPACE", !.failed = "space"]
    ELSE IF ~zipped /\ fault = "copy"
    THEN AbortCall(same, "UNKNOWN_ERROR", "copy")
    ELSE IF q_config.encryptFiles /\ fault = "encrypt"
    THEN AbortCall(same, "ENCRYPTION_FAILED", "encrypt")
    ELSE IF ~q_config.encryptFiles /\ fault = "rename"
    THEN [AbortCall(same, "UNKNOWN_ERROR", "rename")
             EXCEPT !.qdir = Put(qdir, tmpName, tmpData)]
    ELSE IF sharedStuck
    THEN \* unique_lock on m_entriesMutex never succeeds
         [same EXCEPT !.result = "NO_RETURN", !.uuids = 2, !.qdir = withArt,
                      !.hang = TRUE]
    ELSE IF fault = "remove"
    THEN IF q_config.secureDeleteOriginal
         THEN \* SecureDelete returned false; its result is ignored
              [same EXCEPT !.result = "SUCCESS", !.uuids = 2, !.qdir = withArt,
                           !.entries = withRec, !.id = id, !.failed = "remove"]
         ELSE \* fs::remove threw, caught by the filesystem_error handler
              [same EXCEPT !.result = "UNKNOWN_ERROR", !.uuids = 2,
                           !.qdir = withArt, !.entries = withRec, !.id = id,
                           !.failed = "remove"]
    ELSE [same EXCEPT !.result = "SUCCESS", !.uuids = 2, !.qdir = withArt,
                      !.entries = withRec, !.id = id,
                      !.disk = Del(disk, DiskName(a))]

QuarantineFile(filePath, fault) ==
    /\ hungThreads < MaxThreads
    /\ q_calls < MaxCalls
    /\ q_calls' = q_calls + 1
    /\ uuidCounter + 2 <= MaxUuid
    /\ LET o == QuarantineOutcome(filePath, fault)
           a == Absolute(filePath)
       IN /\ disk' = o.disk
          /\ qdir' = o.qdir
          /\ m_entries' = o.entries
          /\ uuidCounter' = uuidCounter + o.uuids
          /\ hungThreads' = IF o.hang THEN hungThreads + 1 ELSE hungThreads
          /\ q_active' = IF o.result = "SUCCESS" THEN q_active \cup {a} ELSE q_active
          /\ q_last' = [op |-> "Quarantine", path |-> filePath, id |-> o.id,
                        result |-> o.result, wasActive |-> a \in q_active,
                        differs |-> FALSE, intact |-> TRUE,
                        recordsFor |-> RecordsFor(o.entries, a),
                        failed |-> o.failed,
                        added |-> (o.entries # m_entries),
                        origKept |-> /\ DiskName(a) \in DOMAIN disk
                                     /\ DiskName(a) \in DOMAIN o.disk
                                     /\ o.disk[DiskName(a)] = disk[DiskName(a)],
                        recordLeft |-> (o.id \in DOMAIN o.entries),
                        artLeft |-> (QName(uuidCounter + 2, "") \in DOMAIN o.qdir)]
    /\ UNCHANGED <<q_config, sharedStuck>>


\* Destination arguments of RestoreFile: "" is the default (the original
\* path).
DestInputs == {"", "C:\\b\\x.exe"}

\* A quarantine id no record has (GenerateUUID never returns it).
UnknownId == 0

\* RestoreFile(quarantineId, destinationPath): the whole handler.  The
\* handler takes m_entriesMutex in shared mode on entry and, still holding
\* it, asks for it in exclusive mode before erasing the record: the caller
\* blocks on itself there (result NO_RETURN) and keeps the shared lock.
RestoreOutcome(id, destArg, fault) ==
    LET same     == [result |-> "", disk |-> disk, qdir |-> qdir,
                     uuids |-> 0, hang |-> FALSE, checked |-> FALSE,
                     differs |-> FALSE]
    IN
    IF id \notin DOMAIN m_entries
    THEN [same EXCEPT !.result = "FILE_NOT_FOUND"]
    ELSE
    LET entry    == m_entries[id]
        dest0    == IF destArg = "" THEN entry.originalPath ELSE destArg
        taken    == DiskName(dest0) \in DOMAIN disk
        used     == IF taken THEN 1 ELSE 0
        dest     == IF taken THEN <<dest0, uuidCounter + 1>> ELSE DiskName(dest0)
        artName  == QName(entry.quarantinePath, "")
        rtmpName == QName(entry.quarantinePath, ".restore_tmp")
        hasArt   == artName \in DOMAIN qdir
        base     == [same EXCEPT !.uuids = used]
        \* after step 2a: the decrypted copy, when the record is encrypted
        qdirDec  == IF entry.isEncrypted
                    THEN Put(qdir, rtmpName, DecryptFile(qdir[artName]))
                    ELSE qdir
        tempName == IF entry.isEncrypted THEN rtmpName ELSE artName
        tempData == qdirDec[tempName]
        destData == IF entry.isCompressed THEN DecompressFile(tempData) ELSE tempData
        \* after step 2b: dest written; the temporary (or, for a record that
        \* is neither encrypted nor compressed, the artifact itself) is gone
        qdirOut  == IF entry.isCompressed
                    THEN (IF tempName # artName THEN Del(qdirDec, tempName) ELSE qdirDec)
                    ELSE Del(qdirDec, tempName)
        diskOut  == Put(disk, dest, destData)
    IN
    IF fault = "mkdir"
    THEN [base EXCEPT !.result = "UNKNOWN_ERROR"]
    ELSE IF entry.isEncrypted /\ (fault = "decrypt" \/ ~hasArt)
    THEN [base EXCEPT !.result = "ENCRYPTION_FAILED"]
    ELSE IF entry.isCompressed /\ (fault = "decompress" \/ ~hasArt)
    THEN [base EXCEPT !.result = "UNKNOWN_ERROR"]
    ELSE IF ~entry.isCompressed /\ (fault = "rename" \/ ~hasArt)
    THEN [base EXCEPT !.result = "UNKNOWN_ERROR", !.qdir = qdirDec]
    ELSE IF CalculateSHA256(destData) # entry.originalHash
    THEN [base EXCEPT !.result = "UNKNOWN_ERROR", !.qdir = qdirOut,
                      !.disk = diskOut, !.checked = TRUE,
                      !.differs = (destData.c # entry.isolated)]
    ELSE IF fault = "remove" /\ artName \in DOMAIN qdirOut
    THEN [base EXCEPT !.result = "UNKNOWN_ERROR", !.qdir = qdirOut,
                      !.disk = diskOut, !.checked = TRUE,
                      !.differs = (destData.c # entry.isolated)]
    ELSE [base EXCEPT !.result = "NO_RETURN", !.hang = TRUE,
                      !.qdir = Del(qdirOut, artName),
                      !.disk = diskOut, !.checked = TRUE,
                      !.differs = (destData.c # entry.isolated)]

\* The artifact of record id is the same file in both directories.
SameArtifact(d1, d2, entries, id) ==
    LET n == QName(entries[id].quarantinePath, "")
    IN  /\ (n \in DOMAIN d1) = (n \in DOMAIN d2)
        /\ (n \in DOMAIN d1 => d1[n] = d2[n])

RestoreFile(id, destArg, fault) ==
    /\ hungThreads < MaxThreads
    /\ q_calls < MaxCalls
    /\ q_calls' = q_calls + 1
    /\ uuidCounter + 1 <= MaxUuid
    /\ LET o == RestoreOutcome(id, destArg, fault)
           known == id \in DOMAIN m_entries
       IN /\ disk' = o.disk
          /\ qdir' = o.qdir
          /\ uuidCounter' = uuidCounter + o.uuids
          /\ hungThreads' = IF o.hang THEN hungThreads + 1 ELSE hungThreads
          /\ sharedStuck' = (sharedStuck \/ o.hang)
          /\ q_active' = IF known THEN q_active \ {m_entries[id].originalPath}
                         ELSE q_active
          /\ q_last' = [op |-> "Restore", path |-> "", id |-> id,
                        result |-> o.result, wasActive |-> FALSE,
                        differs |-> o.differs,
                        intact |-> (known => SameArtifact(qdir, o.qdir, m_entries, id)),
                        recordsFor |-> 0,
                        failed |-> "none",
                        added |-> FALSE, origKept |-> FALSE,
                        recordLeft |-> known,
                        artLeft |-> (known /\ QName(m_entries[id].quarantinePath, "")
                                                 \in DOMAIN o.qdir)]
    /\ UNCHANGED <<q_config, m_entries>>

\* DeletePermanently(quarantineId, secureDelete): the whole handler, with
\* the same shared-then-exclusive acquisition of m_entriesMutex.
DeleteOutcome(id, secureDelete, fault) ==
    LET same == [result |-> "", qdir |-> qdir, hang |-> FALSE, failed |-> "none"]
    IN
    IF id \notin DOMAIN m_entries
    THEN [same EXCEPT !.result = "FILE_NOT_FOUND"]
    ELSE
    LET artName == QName(m_entries[id].quarantinePath, "")
    IN
    IF fault = "remove" /\ artName \in DOMAIN qdir
    THEN IF secureDelete
         THEN \* SecureDelete returned false; its result is ignored
              [same EXCEPT !.result = "NO_RETURN", !.hang = TRUE,
                           !.failed = "remove"]
         ELSE [same EXCEPT !.result = "UNKNOWN_ERROR", !.failed = "remove"]
    ELSE [same EXCEPT !.result = "NO_RETURN", !.hang = TRUE,
                      !.qdir = Del(qdir, artName)]

DeletePermanently(id, secureDelete, fault) ==
    /\ hungThreads < MaxThreads
    /\ q_calls < MaxCalls
    /\ q_calls' = q_calls + 1
    /\ LET o == DeleteOutcome(id, secureDelete, fault)
           known == id \in DOMAIN m_entries
       IN /\ qdir' = o.qdir
          /\ hungThreads' = IF o.hang THEN hungThreads + 1 ELSE hungThreads
          /\ sharedStuck' = (sharedStuck \/ o.hang)
          /\ q_active' = IF known THEN q_active \ {m_entries[id].originalPath}
                         ELSE q_active
          /\ q_last' = [op |-> "Delete", path |-> "", id |-> id,
                        result |-> o.result, wasActive |-> FALSE,
                        differs |-> FALSE,
                        intact |-> (known => SameArtifact(qdir, o.qdir, m_entries, id)),
                        recordsFor |-> 0, failed |-> o.failed,
                        added |-> FALSE, origKept |-> FALSE,
                        recordLeft |-> known,
                        artLeft |-> (known /\ QName(m_entries[id].quarantinePath, "")
                                                 \in DOMAIN o.qdir)]
    /\ UNCHANGED <<q_config, disk, m_entries, uuidCounter>>

(* ================================================================== *)
(*  Part 1b.  QuarantineManager, second implementation                 *)
(*            (Security/Quarantine_impl.cpp)                           *)
(* ================================================================== *)

\* nesting depth of vault files that are quarantined again
MaxLayers == 3
\* number of calls in one run of the second implementation
MaxImplCalls == 3

\* Values std::random_device hands to GenerateSeed.
Seeds == {1, 2}

\* A file's bytes in this part: a base content under a stack of
\* transformations, <<"xor", seed>> for the XOR key stream and
\* <<"hdr", seed>> for the "QVLT" + seed + size header.
ImplPlain(c) == [base |-> c, layers |-> <<>>]

\* EncryptDecrypt(data, seed): XOR with the rolling key; applying it twice
\* with the same seed gives the input back.
EncryptDecrypt(d, seed) ==
    LET n == Len(d.layers)
    IN  IF n > 0 /\ d.layers[n] = <<"xor", seed>>
        THEN [d EXCEPT !.layers = SubSeq(d.layers, 1, n - 1)]
        ELSE [d EXCEPT !.layers = Append(d.layers, <<"xor", seed>>)]

\* The vault file written by QuarantineFile: header, then the data.
VaultFile(d, seed) == [d EXCEPT !.layers = Append(d.layers, <<"hdr", seed>>)]

\* quarantineRoot + "\\" + fileName + ".qvault"; every path of PathInputs
\* has the file name x.exe.
VaultPath(filePath) == "x.exe.qvault"

VaultPaths == {"x.exe.qvault", "y.exe.qvault"}

VARIABLES
    i_config,    \* m_config.encryptFiles
    i_disk,      \* the user's files: name -> bytes
    i_vault,     \* files in the quarantine directory: quarantinePath -> bytes
    i_entries,   \* m_entries: a std::vector of QuarantineEntry
    i_calls,     \* number of calls made so far (bounds the run)
    i_last,      \* history: the last call and its outcome
    i_pending    \* QuarantineFile between fs::remove (109) and push_back (120):
                 \* the local entry, and the outcome the call will report

ivars == <<i_config, i_disk, i_vault, i_entries, i_calls, i_last, i_pending>>

INoCall == [op |-> "none", result |-> "none", originalGone |-> TRUE,
            roundTrip |-> TRUE,
            recordLeft |-> FALSE, artLeft |-> FALSE, destKept |-> TRUE,
            failed |-> FALSE]

IInit ==
    /\ i_config \in [encryptFiles : BOOLEAN]
    /\ i_disk = EmptyMap
    /\ i_vault = EmptyMap
    /\ i_entries = <<>>
    /\ i_calls = 0
    /\ i_last = INoCall
    /\ i_pending = <<>>

IWriteFile(a, c) ==
    /\ DiskName(a) \notin DOMAIN i_disk
    /\ i_disk' = Put(i_disk, DiskName(a), ImplPlain(c))
    /\ UNCHANGED <<i_config, i_vault, i_entries, i_calls, i_last, i_pending>>

IQFaults == {"none", "open", "write", "remove"}

\* Index of the first entry with the given quarantinePath, 0 when none.
ImplFind(entries, qpath) ==
    LET hits == {k \in 1..Len(entries) : entries[k].quarantinePath = qpath}
    IN  IF hits = {} THEN 0 ELSE CHOOSE k \in hits : \A j \in hits : k <= j

\* QuarantineFile(filePath, threatName) of Quarantine_impl.cpp.
ImplQuarantineOutcome(filePath, seed, fault) ==
    LET a     == Absolute(filePath)
        same  == [result |-> "", disk |-> i_disk, vault |-> i_vault,
                  entries |-> i_entries]
        src   == i_disk[DiskName(a)]
        body  == IF i_config.encryptFiles THEN EncryptDecrypt(src, seed) ELSE src
        qpath == VaultPath(filePath)
        withV == Put(i_vault, qpath, VaultFile(body, seed))
        entry == [originalPath |-> filePath, quarantinePath |-> qpath,
                  fileName |-> "x.exe", isolated |-> src]
    IN
    IF DiskName(a) \notin DOMAIN i_disk
    THEN [same EXCEPT !.result = "FILE_NOT_FOUND"]
    ELSE IF fault \in {"open", "write"}
    THEN [same EXCEPT !.result = "ACCESS_DENIED"]
    ELSE IF fault = "remove"
    THEN [same EXCEPT !.result = "UNKNOWN_ERROR", !.vault = withV]
    ELSE [same EXCEPT !.result = "SUCCESS", !.vault = withV,
                      !.disk = Del(i_disk, DiskName(a)),
                      !.entries = Append(i_entries, entry)]

\* QuarantineFile up to and including fs::remove(filePath) at line 109.  A
\* call that fails returns here; a call that goes on has written the vault
\* file and removed the original, and still has to record its entry.
ImplQuarantineFile(filePath, seed, fault) ==
    /\ i_calls < MaxImplCalls
    /\ i_pending = <<>>
    /\ DiskName(Absolute(filePath)) \in DOMAIN i_disk
         => Len(i_disk[DiskName(Absolute(filePath))].layers) + 2 <= 2 * MaxLayers
    /\ LET o == ImplQuarantineOutcome(filePath, seed, fault)
           last == [op |-> "Quarantine", result |-> o.result,
                    originalGone |-> DiskName(Absolute(filePath)) \notin DOMAIN o.disk,
                    roundTrip |-> TRUE,
                    recordLeft |-> (ImplFind(o.entries, VaultPath(filePath)) # 0),
                    artLeft |-> (VaultPath(filePath) \in DOMAIN o.vault),
                    destKept |-> TRUE,
                    failed |-> (o.result \in {"ACCESS_DENIED", "UNKNOWN_ERROR"})]
       IN /\ i_disk' = o.disk
          /\ i_vault' = o.vault
          /\ IF o.result = "SUCCESS"
             THEN /\ i_pending' = <<[entry |-> o.entries[Len(o.entries)],
                                     last |-> last]>>
                  /\ UNCHANGED i_last
             ELSE /\ i_last' = last
                  /\ UNCHANGED i_pending
    /\ i_calls' = i_calls + 1
    /\ UNCHANGED <<i_config, i_entries>>

\* QuarantineFile, lines 111-122: the entry is filled in, pushed onto
\* m_entries under m_entriesMutex, and the call returns SUCCESS.
ImplRecordEntry ==
    /\ i_pending # <<>>
    /\ i_entries' = Append(i_entries, i_pending[1].entry)
    /\ i_last' = i_pending[1].last
    /\ i_pending' = <<>>
    /\ UNCHANGED <<i_config, i_disk, i_vault, i_calls>>

\* RestoreFile(quarantinePath) of Quarantine_impl.cpp: a bare fs::rename of
\* the vault file onto the original path.
ImplRestoreOutcome(qpath, fault) ==
    LET k    == ImplFind(i_entries, qpath)
        same == [result |-> "", disk |-> i_disk, vault |-> i_vault, roundTrip |-> TRUE,
                 destKept |-> TRUE]
    IN
    IF k = 0
    THEN [same EXCEPT !.result = "FILE_NOT_FOUND"]
    ELSE IF fault = "rename" \/ qpath \notin DOMAIN i_vault
    THEN [same EXCEPT !.result = "UNKNOWN_ERROR"]
    ELSE LET dest == DiskName(Absolute(i_entries[k].originalPath))
         IN [same EXCEPT !.result = "SUCCESS",
                         !.disk = Put(i_disk, dest, i_vault[qpath]),
                         !.vault = Del(i_vault, qpath),
                         !.roundTrip = (i_vault[qpath] = i_entries[k].isolated),
                         !.destKept = (dest \notin DOMAIN i_disk)]

ImplRestoreFile(qpath, fault) ==
    /\ i_calls < MaxImplCalls
    /\ i_pending = <<>>
    /\ LET o == ImplRestoreOutcome(qpath, fault)
       IN /\ i_disk' = o.disk
          /\ i_vault' = o.vault
          /\ i_last' = [op |-> "Restore", result |-> o.result,
                        originalGone |-> TRUE, roundTrip |-> o.roundTrip,
                        recordLeft |-> (ImplFind(i_entries, qpath) # 0),
                        artLeft |-> (qpath \in DOMAIN o.vault),
                        destKept |-> o.destKept,
                        failed |-> (o.result = "UNKNOWN_ERROR")]
    /\ i_calls' = i_calls + 1
    /\ UNCHANGED <<i_config, i_entries, i_pending>>

\* The sequence without its k-th element.
RemoveAt(sq, k) == SubSeq(sq, 1, k - 1) \o SubSeq(sq, k + 1, Len(sq))

\* DeletePermanently(quarantinePath) of Quarantine_impl.cpp.
ImplDeleteOutcome(qpath, fault) ==
    LET k    == ImplFind(i_entries, qpath)
        same == [result |-> "", vault |-> i_vault, entries |-> i_entries]
    IN
    IF k = 0
    THEN [same EXCEPT !.result = "FILE_NOT_FOUND"]
    ELSE IF fault = "remove" /\ qpath \in DOMAIN i_vault
    THEN [same EXCEPT !.result = "UNKNOWN_ERROR"]
    ELSE [same EXCEPT !.result = "SUCCESS",
                      !.vault = Del(i_vault, qpath),
                      !.entries = RemoveAt(i_entries, k)]

ImplDeletePermanently(qpath, fault) ==
    /\ i_calls < MaxImplCalls
    /\ i_pending = <<>>
    /\ LET o == ImplDeleteOutcome(qpath, fault)
       IN /\ i_vault' = o.vault
          /\ i_entries' = o.entries
          /\ i_last' = [op |-> "Delete", result |-> o.result,
                        originalGone |-> TRUE, roundTrip |-> TRUE,
                        recordLeft |-> (ImplFind(o.entries, qpath) # 0),
                        artLeft |-> (qpath \in DOMAIN o.vault),
                        destKept |-> TRUE,
                        failed |-> (o.result = "UNKNOWN_ERROR")]
    /\ i_calls' = i_calls + 1
    /\ UNCHANGED <<i_config, i_disk, i_pending>>

(* ================================================================== *)
(*  Part 2.  AIDetector result cache  (AI/AIDetector.cpp)              *)
(* ================================================================== *)

\* largest cacheSize the configuration is drawn from
MaxCacheSize == 2
\* number of Detect calls in one run
MaxDetectCalls == 3
\* number of distinct cache keys VectorHash produces in the model
NumKeys == 3

\* Threads calling Detect: the on-demand scan thread and the monitor's
\* event processor.
DThreads == {"scan", "monitor"}

\* Feature vectors.  Vector 0 is the empty vector, which
\* ValidateInputShape rejects.
Vectors == 0..4

\* ValidateInputShape: size > 0 (and at most twice the model's input size).
ValidateInputShape(v) == v # 0

\* VectorHash / CreateCacheKey: a hash of the floats, so two different
\* vectors can share a key (here vectors 1 and 4).
VectorHash(v) == ((v - 1) % NumKeys) + 1

\* Milliseconds a model run can take (what inferenceTimeMs records).
Durations == {0, 1}

\* Scores an uninitialised float can hold.
Scores == {0, 1}

\* The model's malicious score for a vector (ProcessOutput of the
\* session's output): a fixed function of the vector.
ModelScore(v) == v % 2

VARIABLES
    d_config,      \* m_config: useCaching, cacheSize; ensemble: secondary sessions loaded
    m_cache,       \* std::map key -> AIDetectionResult
    m_cacheOrder,  \* std::vector of keys, oldest first
    m_stats,       \* totalInferences, cacheHits, errors
    d_pc,          \* per thread: where it is inside Detect
    d_call,        \* per thread: the call in progress
    d_calls,       \* number of Detect calls started (bounds the run)
    d_inserted,    \* history: keys ever passed to UpdateCache
    d_fifo,        \* history: the keys present by age of insertion, and the
                   \* key the last UpdateCache removed
    d_prev,        \* history: the Detect call that returned last
    d_pair         \* history: the last two calls, when they were consecutive

dvars == <<d_config, m_cache, m_cacheOrder, m_stats, d_pc, d_call, d_calls,
           d_inserted, d_fifo, d_prev, d_pair>>

NoResult == [isValid |-> FALSE, maliciousScore |-> 0, inferenceTimeMs |-> 0]

NoPrev == [exists |-> FALSE, v |-> 0, result |-> NoResult, solo |-> FALSE]

NoDCall == [v |-> 0, key |-> 0, result |-> NoResult, solo |-> FALSE,
            prev |-> NoPrev, hits0 |-> 0, inf0 |-> 0, failed |-> FALSE]

NoPair == [exists |-> FALSE, v1 |-> 0, v2 |-> 0, r1 |-> NoResult, r2 |-> NoResult,
           dHits |-> 0, dInf |-> 0]

\* The detector after a successful Initialize.
\* Reference orders of the keys present, oldest first.  byLast orders them
\* by the UpdateCache call that stored the present entry (an entry that is
\* stored again counts as new); byFirst keeps a key at the place of its
\* first insertion for as long as it stays in the cache.
Without(sq, x) == SelectSeq(sq, LAMBDA y : y # x)

InsertLatest(sq, key) == Append(Without(sq, key), key)

InsertFirst(sq, key) ==
    IF \E k \in 1..Len(sq) : sq[k] = key THEN sq ELSE Append(sq, key)

DropOldest(sq, capacity) == IF Len(sq) > capacity THEN Tail(sq) ELSE sq

NoFifo == [byLast |-> <<>>, byFirst |-> <<>>, victim |-> 0, expected |-> 0,
           failedInference |-> FALSE]

DInit ==
    /\ d_config \in [useCaching : BOOLEAN, cacheSize : 0..MaxCacheSize,
                     ensemble : BOOLEAN]
    /\ m_cache = EmptyMap
    /\ m_cacheOrder = <<>>
    /\ m_stats = [totalInferences |-> 0, cacheHits |-> 0, errors |-> 0]
    /\ d_pc = [t \in DThreads |-> "idle"]
    /\ d_call = [t \in DThreads |-> NoDCall]
    /\ d_calls = 0
    /\ d_inserted = {}
    /\ d_fifo = NoFifo
    /\ d_prev = NoPrev
    /\ d_pair = NoPair

\* CheckCache with the lookup removed: every call misses.
CheckCacheMiss(cache, key) == FALSE

\* CheckCache: a lookup; the order list is not touched.
CheckCache(cache, key) == key \in DOMAIN cache

\* The sequence without the first occurrence of x.
EraseKey(sq, x) ==
    LET hits == {k \in 1..Len(sq) : sq[k] = x}
    IN  IF hits = {} THEN sq
        ELSE RemoveAt(sq, CHOOSE k \in hits : \A j \in hits : k <= j)

\* UpdateCache without the eviction of the oldest key.
UpdateCacheNoEvict(cache, order, key, result, cacheSize) ==
    [cache |-> Put(cache, key, result),
     order |-> Append(IF key \in DOMAIN cache THEN EraseKey(order, key) ELSE order, key)]

\* UpdateCache removing the newest key instead of the oldest.
UpdateCacheEvictNewest(cache, order, key, result, cacheSize) ==
    LET order1 == IF key \in DOMAIN cache THEN EraseKey(order, key) ELSE order
        cache2 == Put(cache, key, result)
        order2 == Append(order1, key)
    IN  IF Cardinality(DOMAIN cache2) > cacheSize
        THEN [cache |-> Del(cache2, key), order |-> order1]
        ELSE [cache |-> cache2, order |-> order2]

\* UpdateCache(key, result): returns the new map and the new order list.
UpdateCache(cache, order, key, result, cacheSize) ==
    LET order1 == IF key \in DOMAIN cache THEN EraseKey(order, key) ELSE order
        cache2 == Put(cache, key, result)
        order2 == Append(order1, key)
    IN  IF Cardinality(DOMAIN cache2) > cacheSize
        THEN [cache |-> Del(cache2, Head(order2)), order |-> Tail(order2)]
        ELSE [cache |-> cache2, order |-> order2]

\* Bookkeeping when thread t's call returns result r: the call becomes
\* the previous call, and it forms a consecutive pair with the call that
\* returned just before it began when no other call overlapped either.
DReturn(t, call, r, stats) ==
    /\ d_prev' = [exists |-> TRUE, v |-> call.v, result |-> r, solo |-> call.solo]
    /\ d_pair' = IF call.solo /\ call.prev.exists /\ call.prev.solo
                 THEN [exists |-> TRUE, v1 |-> call.prev.v, v2 |-> call.v,
                       r1 |-> call.prev.result, r2 |-> r,
                       dHits |-> stats.cacheHits - call.hits0,
                       dInf |-> stats.totalInferences - call.inf0]
                 ELSE NoPair

\* Detect, first part: the shape check and the cache lookup.  A rejected
\* vector or a cache hit returns at once; a miss goes on to the model.
DetectBegin(t, v) ==
    /\ d_pc[t] = "idle"
    /\ d_calls < MaxDetectCalls
    /\ d_calls' = d_calls + 1
    /\ LET overlap == \E u \in DThreads : u # t /\ d_pc[u] # "idle"
           key     == VectorHash(v)
           call    == [v |-> v, key |-> key, result |-> NoResult,
                       solo |-> ~overlap, prev |-> d_prev, failed |-> FALSE,
                       hits0 |-> m_stats.cacheHits,
                       inf0 |-> m_stats.totalInferences]
           others  == [u \in DThreads |->
                         IF u # t /\ d_pc[u] # "idle"
                         THEN [d_call[u] EXCEPT !.solo = FALSE] ELSE d_call[u]]
       IN
       IF ~ValidateInputShape(v)
       THEN /\ m_stats' = [m_stats EXCEPT !.errors = @ + 1]
            /\ DReturn(t, call, NoResult, m_stats')
            /\ d_call' = others
            /\ UNCHANGED d_pc
       ELSE IF d_config.useCaching /\ CheckCache(m_cache, key)
       THEN /\ m_stats' = [m_stats EXCEPT !.cacheHits = @ + 1]
            /\ DReturn(t, call, m_cache[key], m_stats')
            /\ d_call' = others
            /\ UNCHANGED d_pc
       ELSE /\ d_pc' = [d_pc EXCEPT ![t] = "infer"]
            /\ d_call' = [others EXCEPT ![t] = call]
            /\ UNCHANGED <<m_stats, d_prev, d_pair>>
    /\ UNCHANGED <<d_config, m_cache, m_cacheOrder, d_inserted, d_fifo>>

\* Detect, second part: RunInference or RunEnsembleInference, then the
\* statistics.  ok tells whether the session's Run succeeded; ms is the
\* time it took; junk is the value of the never-initialised score of a
\* failed result (RunEnsembleInference reads it and still reports a
\* valid result).
DetectInfer(t, ok, ms, junk) ==
    /\ d_pc[t] = "infer"
    /\ LET call   == d_call[t]
           single == IF ok
                     THEN [isValid |-> TRUE, maliciousScore |-> ModelScore(call.v),
                           inferenceTimeMs |-> ms]
                     ELSE [isValid |-> FALSE, maliciousScore |-> junk,
                           inferenceTimeMs |-> ms]
           r      == IF d_config.ensemble
                     THEN [isValid |-> TRUE,
                           maliciousScore |-> IF ok THEN ModelScore(call.v) ELSE junk,
                           inferenceTimeMs |-> ms]
                     ELSE single
           stats  == [m_stats EXCEPT !.totalInferences = @ + 1,
                                     !.errors = IF ok THEN @ ELSE @ + 1]
       IN /\ m_stats' = stats
          /\ IF d_config.useCaching /\ r.isValid
             THEN /\ d_pc' = [d_pc EXCEPT ![t] = "update"]
                  /\ d_call' = [d_call EXCEPT ![t].result = r, ![t].failed = ~ok]
                  /\ UNCHANGED <<d_prev, d_pair>>
             ELSE /\ d_pc' = [d_pc EXCEPT ![t] = "idle"]
                  /\ d_call' = [d_call EXCEPT ![t] = NoDCall]
                  /\ DReturn(t, call, r, stats)
    /\ UNCHANGED <<d_config, m_cache, m_cacheOrder, d_calls, d_inserted, d_fifo>>

\* Detect, last part: UpdateCache under m_cacheMutex, then return.
DetectUpdate(t) ==
    /\ d_pc[t] = "update"
    /\ LET call == d_call[t]
           u    == UpdateCache(m_cache, m_cacheOrder, call.key, call.result,
                               d_config.cacheSize)
       IN /\ m_cache' = u.cache
          /\ m_cacheOrder' = u.order
          /\ d_inserted' = d_inserted \cup {call.key}
          /\ LET removed == (DOMAIN m_cache \cup {call.key}) \ DOMAIN u.cache
                 victim  == IF removed = {} THEN 0 ELSE CHOOSE k \in removed : TRUE
                 last1   == InsertLatest(d_fifo.byLast, call.key)
                 first1  == InsertFirst(d_fifo.byFirst, call.key)
             IN  d_fifo' = [byLast   |-> DropOldest(last1, d_config.cacheSize),
                            byFirst  |-> Without(first1, victim),
                            victim   |-> victim,
                            expected |-> IF Len(last1) > d_config.cacheSize
                                         THEN Head(last1) ELSE 0,
                            failedInference |-> (call.failed /\ call.key \in DOMAIN u.cache)]
          /\ DReturn(t, call, call.result, m_stats)
    /\ d_pc' = [d_pc EXCEPT ![t] = "idle"]
    /\ d_call' = [d_call EXCEPT ![t] = NoDCall]
    /\ UNCHANGED <<d_config, m_stats, d_calls>>

(* ================================================================== *)
(*  Part 3.  RealTimeMonitor  (Core/RealTimeMonitor.cpp)               *)
(* ================================================================== *)

\* largest maxQueueSize the configuration is drawn from
MaxQueueSize == 2
\* number of file-system notifications the watchers receive in one run
MaxEvents == 2
\* number of Start calls in one run
MaxStarts == 1

\* m_watchedPaths after Initialize and AddWatchPath: one
\* DirectoryMonitorThread each.  The first is an absolute path, as every
\* default watch path is; the others are relative to the working directory.
WatchedPaths == {"C:\\w1", "w1", "w2"}

\* Line 448: fullPath = path + L"\\" + fileName, for the one file name f.
FullPath(w) == w \o "\\f"

\* std::filesystem::path::parent_path on the paths that occur here: the
\* parent of a root directory is that root directory, the parent of a
\* single relative name is the empty path.
ParentPath(p) ==
    CASE p = "C:\\w1\\f" -> "C:\\w1"
      [] p = "C:\\w1"    -> "C:\\"
      [] p = "C:\\"      -> "C:\\"
      [] p = "w1\\f"     -> "w1"
      [] p = "w2\\f"     -> "w2"
      [] OTHER          -> ""

\* path::has_parent_path: parent_path() is not empty.
HasParentPath(p) == ParentPath(p) # ""

\* Lines 680-686: while (p.has_parent_path()) { p = p.parent_path(); if p
\* is an exception return true; }.  When the parent of p is p itself and
\* is no exception, the next round is the same as this one: the loop
\* never ends ("never").
RECURSIVE ParentWalk(_, _)
ParentWalk(p, exceptions) ==
    IF ~HasParentPath(p) THEN "false"
    ELSE LET q == ParentPath(p)
         IN  IF q \in exceptions THEN "true"
             ELSE IF q = p THEN "never"
             ELSE ParentWalk(q, exceptions)

\* RealTimeMonitor::IsException: "true", "false", or "never" when the
\* call does not return.
IsException(path, exceptions) ==
    IF path \in exceptions THEN "true" ELSE ParentWalk(path, exceptions)

\* What m_exceptions can hold when a watcher asks.
ExceptionSets == SUBSET {"C:\\w1", "w2"}

\* Event types of the notifications the watchers receive here.  (The
\* type only matters to ProcessEvent, whose result is ALLOW for every
\* type.)
EventTypes == {"FILE_CREATED"}

\* A default-constructed MonitorEvent: its path is empty.
NoEvent == [id |-> 0, type |-> "NONE", path |-> ""]

VARIABLES
    mon_config,       \* m_config.maxQueueSize; callback: m_eventCallback is set
    m_isRunning,      \* std::atomic<bool>
    m_stopRequested,  \* std::atomic<bool>
    m_queue,          \* m_eventQueue.queue, front first
    queue_mutex,      \* who holds m_eventQueue.mutex across steps: "free" or "processor"
    c_pc,             \* the thread calling Start / Stop: where it is inside Stop
    w_pc,             \* per watched path: where its DirectoryMonitorThread is
    w_event,          \* per watched path: the event the watcher is about to queue
    p_pc,             \* where EventProcessorThread is
    p_event,          \* the processor's local event
    p_action,         \* the processor's local action
    pm_pc,            \* where ProcessMonitorThread is
    m_totalEvents,    \* m_stats.totalEvents
    evCounter,        \* notifications received so far (bounds the run)
    starts,           \* Start calls so far (bounds the run)
    pushed,           \* history: events accepted into the queue, in order
    handled,          \* history: events given to ProcessEvent, in order
    calledBack,       \* history: events given to the callback, in order
    push_last,        \* history: the last attempt to queue an event
    q_peak,           \* history: the longest the queue has been
    p_raced,          \* history: shutdown was requested after the processor's
                      \* latest check at line 495 and before ProcessEvent began
    p_lateStarts,     \* history: ProcessEvent calls begun after the request
    p_lateRaced,      \* history: every such call was one that raced
    stop_ctx          \* history: where the threads were when Stop was called

mvars == <<mon_config, m_isRunning, m_stopRequested, m_queue, queue_mutex, c_pc,
           w_pc, w_event, p_pc, p_event, p_action, pm_pc, m_totalEvents,
           evCounter, starts, pushed, handled, calledBack, push_last, q_peak,
           p_raced, p_lateStarts, p_lateRaced, stop_ctx>>

NoPush == [attempted |-> FALSE, full |-> FALSE, accepted |-> FALSE,
           unchanged |-> TRUE, next |-> "none"]

NoStop == [called |-> FALSE, processor |-> "none", watcherWaiting |-> FALSE]

\* The monitor after construction and Initialize: not running, no threads.
MInit ==
    /\ mon_config \in [maxQueueSize : 0..MaxQueueSize, callback : BOOLEAN]
    /\ m_isRunning = FALSE
    /\ m_stopRequested = FALSE
    /\ m_queue = <<>>
    /\ queue_mutex = "free"
    /\ c_pc = "idle"
    /\ w_pc = [w \in WatchedPaths |-> "none"]
    /\ w_event = [w \in WatchedPaths |-> NoEvent]
    /\ p_pc = "none"
    /\ p_event = NoEvent
    /\ p_action = "ALLOW"
    /\ pm_pc = "none"
    /\ m_totalEvents = 0
    /\ evCounter = 0
    /\ starts = 0
    /\ pushed = <<>>
    /\ handled = <<>>
    /\ calledBack = <<>>
    /\ push_last = NoPush
    /\ q_peak = 0
    /\ p_raced = FALSE
    /\ p_lateStarts = 0
    /\ p_lateRaced = TRUE
    /\ stop_ctx = NoStop

\* ---------------- pure parts ----------------

\* The queue guard with the size test removed.
PushUnbounded(queue, event, maxQueueSize) == Append(queue, event)

\* Lines 462-465: the event is queued only while the queue is below
\* maxQueueSize; otherwise it is dropped.
Push(queue, event, maxQueueSize) ==
    IF Len(queue) < maxQueueSize THEN Append(queue, event) ELSE queue

\* Taking the newest element instead of the oldest.
PopNewest(queue) ==
    [event |-> queue[Len(queue)], rest |-> SubSeq(queue, 1, Len(queue) - 1)]

\* Lines 498-499: queue.front() then queue.pop().
Pop(queue) == [event |-> Head(queue), rest |-> Tail(queue)]

\* The wait predicate without the shutdown flag.
WaitPredicateNoStop(queue, stopRequested) == queue # <<>>

\* Lines 491-493: the predicate of cv.wait.
WaitPredicate(queue, stopRequested) == queue # <<>> \/ stopRequested

\* The check of line 495 left out.
NoShutdownCheck(stopRequested) == FALSE

\* Line 495: if (m_stopRequested.load()) break;
ShutdownCheck(stopRequested) == stopRequested

\* ScanAndDecide: the scanner is not wired in; every path ends in ALLOW.
ScanAndDecide(path) == "ALLOW"

\* ProcessEvent: only created / modified / renamed files are scanned.
ProcessEvent(event) ==
    IF event.type \notin {"FILE_CREATED", "FILE_MODIFIED", "FILE_RENAMED"}
    THEN "ALLOW"
    ELSE ScanAndDecide(event.path)

\* ---------------- Start / Stop ----------------

\* Start on a stopped monitor: the whole handler.
Start ==
    /\ c_pc = "idle"
    /\ ~m_isRunning
    /\ starts < MaxStarts
    /\ starts' = starts + 1
    /\ m_isRunning' = TRUE
    /\ m_stopRequested' = FALSE
    /\ w_pc' = [w \in WatchedPaths |-> "check410"]
    /\ p_pc' = "check485"
    /\ pm_pc' = "check647"
    /\ p_raced' = FALSE
    /\ p_lateStarts' = 0
    /\ UNCHANGED <<mon_config, m_queue, queue_mutex, c_pc, w_event, p_event,
                   p_action, m_totalEvents, evCounter, pushed, handled,
                   calledBack, push_last, q_peak, p_lateRaced, stop_ctx>>

\* Stop, lines 326-330: m_isRunning.exchange(false), m_stopRequested = true.
StopRequest ==
    /\ c_pc = "idle"
    /\ m_isRunning
    /\ m_isRunning' = FALSE
    /\ m_stopRequested' = TRUE
    /\ c_pc' = "join333"
    /\ p_raced' = (p_pc \in {"pop497", "process505"})
    /\ stop_ctx' = [called |-> TRUE, processor |-> p_pc,
                     watcherWaiting |-> \E w \in WatchedPaths : w_pc[w] = "wait435"]
    /\ UNCHANGED <<mon_config, m_queue, queue_mutex, w_pc, w_event, p_pc,
                   p_event, p_action, pm_pc, m_totalEvents, evCounter, starts,
                   pushed, handled, calledBack, push_last, q_peak, p_lateStarts,
                   p_lateRaced>>

\* Stop, lines 333-338: join every watcher thread, then clear the vector.
StopJoinWatchers ==
    /\ c_pc = "join333"
    /\ \A w \in WatchedPaths : w_pc[w] = "done"
    /\ w_pc' = [w \in WatchedPaths |-> "none"]
    /\ c_pc' = "notify342"
    /\ UNCHANGED <<mon_config, m_isRunning, m_stopRequested, m_queue,
                   queue_mutex, w_event, p_pc, p_event, p_action, pm_pc,
                   m_totalEvents, evCounter, starts, pushed, handled,
                   calledBack, push_last, q_peak, p_raced, p_lateStarts, p_lateRaced,
                   stop_ctx>>

\* Stop, lines 341-344: notify_all under the queue mutex.
StopNotify ==
    /\ c_pc = "notify342"
    /\ queue_mutex = "free"
    /\ p_pc' = IF p_pc = "waiting" THEN "lock490" ELSE p_pc
    /\ c_pc' = "join345"
    /\ UNCHANGED <<mon_config, m_isRunning, m_stopRequested, m_queue,
                   queue_mutex, w_pc, w_event, p_event, p_action, pm_pc,
                   m_totalEvents, evCounter, starts, pushed, handled,
                   calledBack, push_last, q_peak, p_raced, p_lateStarts, p_lateRaced,
                   stop_ctx>>

\* Stop, lines 345-347: join the event processor.
StopJoinProcessor ==
    /\ c_pc = "join345"
    /\ p_pc = "done"
    /\ p_pc' = "none"
    /\ c_pc' = "join350"
    /\ UNCHANGED <<mon_config, m_isRunning, m_stopRequested, m_queue,
                   queue_mutex, w_pc, w_event, p_event, p_action, pm_pc,
                   m_totalEvents, evCounter, starts, pushed, handled,
                   calledBack, push_last, q_peak, p_raced, p_lateStarts, p_lateRaced,
                   stop_ctx>>

\* Stop, lines 350-357: join the process monitor, record the uptime, return.
StopJoinProcessMonitor ==
    /\ c_pc = "join350"
    /\ pm_pc = "done"
    /\ pm_pc' = "none"
    /\ c_pc' = "idle"
    /\ UNCHANGED <<mon_config, m_isRunning, m_stopRequested, m_queue,
                   queue_mutex, w_pc, w_event, p_pc, p_event, p_action,
                   m_totalEvents, evCounter, starts, pushed, handled,
                   calledBack, push_last, q_peak, p_raced, p_lateStarts, p_lateRaced,
                   stop_ctx>>

\* ---------------- DirectoryMonitorThread ----------------

\* Line 410: the loop test.
WCheck(w) ==
    /\ w_pc[w] = "check410"
    /\ w_pc' = [w_pc EXCEPT ![w] = IF m_stopRequested THEN "done" ELSE "wait435"]
    /\ UNCHANGED <<mon_config, m_isRunning, m_stopRequested, m_queue,
                       queue_mutex, c_pc, w_event, p_pc, p_event,
                       p_action, pm_pc, m_totalEvents, evCounter, starts,
                       pushed, handled, calledBack, push_last, q_peak, p_raced,
                       p_lateStarts, p_lateRaced, stop_ctx>>

\* Lines 398-401 and 430-432: the directory cannot be opened, or
\* ReadDirectoryChangesW fails: the thread leaves its loop.
WFail(w) ==
    /\ w_pc[w] = "check410"
    /\ ~m_stopRequested
    /\ w_pc' = [w_pc EXCEPT ![w] = "done"]
    /\ UNCHANGED <<mon_config, m_isRunning, m_stopRequested, m_queue,
                       queue_mutex, c_pc, w_event, p_pc, p_event,
                       p_action, pm_pc, m_totalEvents, evCounter, starts,
                       pushed, handled, calledBack, push_last, q_peak, p_raced,
                       p_lateStarts, p_lateRaced, stop_ctx>>

\* Line 435: the wait ends after 1000 ms with nothing to report.
WTimeout(w) ==
    /\ w_pc[w] = "wait435"
    /\ w_pc' = [w_pc EXCEPT ![w] = "check410"]
    /\ UNCHANGED <<mon_config, m_isRunning, m_stopRequested, m_queue,
                       queue_mutex, c_pc, w_event, p_pc, p_event,
                       p_action, pm_pc, m_totalEvents, evCounter, starts,
                       pushed, handled, calledBack, push_last, q_peak, p_raced,
                       p_lateStarts, p_lateRaced, stop_ctx>>

\* Lines 437-457: a notification arrives (from the wait, or as a further
\* entry of the same buffer) while m_exceptions holds exceptions; the
\* event is skipped when IsException holds for its path, and the watcher
\* stays at line 451 when IsException does not return.
WObserve(w, type, exceptions) ==
    /\ w_pc[w] \in {"wait435", "next469"}
    /\ evCounter < MaxEvents
    /\ evCounter' = evCounter + 1
    /\ LET excepted == IsException(FullPath(w), exceptions)
       IN  CASE excepted = "true" ->
                  /\ w_pc' = [w_pc EXCEPT ![w] = "next469"]
                  /\ UNCHANGED w_event
             [] excepted = "never" ->
                  /\ w_pc' = [w_pc EXCEPT ![w] = "isException451"]
                  /\ UNCHANGED w_event
             [] OTHER ->
                  /\ w_pc' = [w_pc EXCEPT ![w] = "push461"]
                  /\ w_event' = [w_event EXCEPT ![w] =
                                   [id |-> evCounter + 1, type |-> type,
                                    path |-> FullPath(w)]]
    /\ UNCHANGED <<mon_config, m_isRunning, m_stopRequested, m_queue,
                       queue_mutex, c_pc, p_pc, p_event, p_action, pm_pc,
                       m_totalEvents, starts, pushed, handled, calledBack,
                       push_last, q_peak, p_raced, p_lateStarts, p_lateRaced,
                       stop_ctx>>

\* Lines 460-466: under the queue mutex, queue the event when there is
\* room and wake one waiter.
WPush(w) ==
    /\ w_pc[w] = "push461"
    /\ queue_mutex = "free"
    /\ LET q2       == Push(m_queue, w_event[w], mon_config.maxQueueSize)
           accepted == Len(q2) > Len(m_queue)
       IN /\ m_queue' = q2
          /\ pushed' = IF accepted THEN Append(pushed, w_event[w]) ELSE pushed
          /\ q_peak' = IF Len(q2) > q_peak THEN Len(q2) ELSE q_peak
          /\ p_pc' = IF accepted /\ p_pc = "waiting" THEN "lock490" ELSE p_pc
          /\ push_last' = [attempted |-> TRUE,
                           full |-> Len(m_queue) >= mon_config.maxQueueSize,
                           accepted |-> accepted,
                           unchanged |-> (q2 = m_queue), next |-> "next469"]
    /\ w_pc' = [w_pc EXCEPT ![w] = "next469"]
    /\ w_event' = [w_event EXCEPT ![w] = NoEvent]
    /\ UNCHANGED <<mon_config, m_isRunning, m_stopRequested, queue_mutex,
                       c_pc, p_event, p_action, pm_pc, m_totalEvents,
                       evCounter, starts, handled, calledBack, p_raced,
                       p_lateStarts, p_lateRaced, stop_ctx>>

\* Lines 469, 476: no further entry in the buffer; back to the loop test.
WBufferEnd(w) ==
    /\ w_pc[w] = "next469"
    /\ w_pc' = [w_pc EXCEPT ![w] = "check410"]
    /\ UNCHANGED <<mon_config, m_isRunning, m_stopRequested, m_queue,
                       queue_mutex, c_pc, w_event, p_pc, p_event,
                       p_action, pm_pc, m_totalEvents, evCounter, starts,
                       pushed, handled, calledBack, push_last, q_peak, p_raced,
                       p_lateStarts, p_lateRaced, stop_ctx>>

\* ---------------- EventProcessorThread ----------------

\* Line 485: the loop test.
PLoopCheck ==
    /\ p_pc = "check485"
    /\ p_pc' = IF m_stopRequested THEN "done" ELSE "lock490"
    /\ UNCHANGED <<mon_config, m_isRunning, m_stopRequested, m_queue,
                       queue_mutex, c_pc, w_pc, w_event, p_event,
                       p_action, pm_pc, m_totalEvents, evCounter, starts,
                       pushed, handled, calledBack, push_last, q_peak, p_raced,
                       p_lateStarts, p_lateRaced, stop_ctx>>

\* Lines 490-493: lock the queue mutex and evaluate the wait predicate;
\* when it is false the thread releases the mutex and waits.
PLock ==
    /\ p_pc = "lock490"
    /\ queue_mutex = "free"
    /\ IF WaitPredicate(m_queue, m_stopRequested)
       THEN /\ queue_mutex' = "processor"
            /\ p_pc' = "check495"
       ELSE /\ p_pc' = "waiting"
            /\ UNCHANGED queue_mutex
    /\ UNCHANGED <<mon_config, m_isRunning, m_stopRequested, m_queue, c_pc,
                       w_pc, w_event, p_event, p_action, pm_pc,
                       m_totalEvents, evCounter, starts, pushed, handled,
                       calledBack, push_last, q_peak, p_raced, p_lateStarts,
                       p_lateRaced, stop_ctx>>

\* A condition variable may wake without a notification.
PSpuriousWake ==
    /\ p_pc = "waiting"
    /\ p_pc' = "lock490"
    /\ UNCHANGED <<mon_config, m_isRunning, m_stopRequested, m_queue,
                       queue_mutex, c_pc, w_pc, w_event, p_event,
                       p_action, pm_pc, m_totalEvents, evCounter, starts,
                       pushed, handled, calledBack, push_last, q_peak, p_raced,
                       p_lateStarts, p_lateRaced, stop_ctx>>

\* Line 495.
PCheck495 ==
    /\ p_pc = "check495"
    /\ IF ShutdownCheck(m_stopRequested)
       THEN /\ p_pc' = "done"
            /\ queue_mutex' = "free"
       ELSE /\ p_pc' = "pop497"
            /\ UNCHANGED queue_mutex
    /\ UNCHANGED <<mon_config, m_isRunning, m_stopRequested, m_queue, c_pc,
                       w_pc, w_event, p_event, p_action, pm_pc,
                       m_totalEvents, evCounter, starts, pushed, handled,
                       calledBack, push_last, q_peak, p_raced, p_lateStarts,
                       p_lateRaced, stop_ctx>>

\* Lines 497-504: take the front event, release the mutex; an event with
\* an empty path is not processed.
PPop ==
    /\ p_pc = "pop497"
    /\ LET r == IF m_queue # <<>> THEN Pop(m_queue)
                ELSE [event |-> NoEvent, rest |-> m_queue]
       IN /\ p_event' = r.event
          /\ m_queue' = r.rest
          /\ p_pc' = IF r.event.path # "" THEN "process505" ELSE "check485"
    /\ queue_mutex' = "free"
    /\ UNCHANGED <<mon_config, m_isRunning, m_stopRequested, c_pc, w_pc,
                       w_event, p_action, pm_pc, m_totalEvents, evCounter,
                       starts, pushed, handled, calledBack, push_last, q_peak,
                       p_raced, p_lateStarts, p_lateRaced, stop_ctx>>

\* Line 505: ProcessEvent.
PProcess ==
    /\ p_pc = "process505"
    /\ p_action' = ProcessEvent(p_event)
    /\ handled' = Append(handled, p_event)
    /\ p_lateStarts' = IF m_stopRequested THEN p_lateStarts + 1 ELSE p_lateStarts
    /\ p_lateRaced' = (p_lateRaced /\ (m_stopRequested => p_raced))
    /\ p_pc' = "callback508"
    /\ UNCHANGED <<mon_config, m_isRunning, m_stopRequested, m_queue,
                       queue_mutex, c_pc, w_pc, w_event, p_event, pm_pc,
                       m_totalEvents, evCounter, starts, pushed,
                       calledBack, push_last, q_peak, p_raced, stop_ctx>>

\* Lines 508-524: the callback when one is set, ExecuteResponse for an
\* action other than ALLOW, the statistics.
PCallback ==
    /\ p_pc = "callback508"
    /\ calledBack' = IF mon_config.callback THEN Append(calledBack, p_event)
                     ELSE calledBack
    /\ m_totalEvents' = m_totalEvents + 1
    /\ p_event' = NoEvent
    /\ p_pc' = "check485"
    /\ UNCHANGED <<mon_config, m_isRunning, m_stopRequested, m_queue,
                       queue_mutex, c_pc, w_pc, w_event, p_action, pm_pc,
                       evCounter, starts, pushed, handled, push_last, q_peak,
                       p_raced, p_lateStarts, p_lateRaced, stop_ctx>>

\* ---------------- ProcessMonitorThread ----------------

\* Lines 647-653: the loop sleeps five seconds at a time and does nothing
\* else; it ends at the first test that finds the flag set.
PMCheck ==
    /\ pm_pc = "check647"
    /\ m_stopRequested
    /\ pm_pc' = "done"
    /\ UNCHANGED <<mon_config, m_isRunning, m_stopRequested, m_queue,
                   queue_mutex, c_pc, w_pc, w_event, p_pc, p_event, p_action,
                   m_totalEvents, evCounter, starts, pushed, handled,
                   calledBack, push_last, q_peak, p_raced, p_lateStarts, p_lateRaced,
                   stop_ctx>>

(* ================================================================== *)
(*  Part 4.  RealTimeMonitor, handling of one dequeued event           *)
(*           (Core/RealTimeMonitor.cpp, lines 503-629)                 *)
(*                                                                     *)
(*  The processor thread handles its events one after the other; this  *)
(*  part follows one event from the pop to the statistics update, with *)
(*  the file's condition on disk and the verdict a scan of it would    *)
(*  give as inputs.                                                    *)
(* ================================================================== *)

MaxHandled == 2

MonitorEventTypes ==
    {"FILE_CREATED", "FILE_MODIFIED", "FILE_RENAMED", "FILE_DELETED",
     "PROCESS_CREATED"}

EventPaths == {"C:\\w1\\a.exe", "C:\\w1\\b.txt"}

\* fs::path(event.path).extension()
Extension(path) == IF path = "C:\\w1\\a.exe" THEN ".exe" ELSE ".txt"

dangerousExts ==
    {".exe", ".dll", ".scr", ".bat", ".cmd", ".ps1", ".vbs", ".js", ".jar",
     ".zip", ".rar"}

\* What the file at event.path is when ScanAndDecide looks at it:
\*   missing  - gone since the event was raised
\*   locked   - present, held open exclusively by another process, so it
\*              cannot be opened or read; its directory entry is readable
\*   empty    - present, zero bytes
\*   readable - present, non-empty, can be opened and read
FileConds == {"missing", "locked", "empty", "readable"}

\* The verdict level a scan of the file's content gives (ThreatLevel).
ThreatLevels == {"SAFE", "LOW", "MEDIUM", "HIGH", "CRITICAL"}

\* fs::file_size(filePath) throws when the file does not exist; it reads
\* the directory entry only, so a locked file has a size.
FileSizeThrows(cond) == cond = "missing"

\* A classification that scans dangerous extensions only.
ScansDangerousOnly(event, scanOnAccess) ==
    /\ event.type \in {"FILE_CREATED", "FILE_MODIFIED", "FILE_RENAMED"}
    /\ Extension(event.path) \in dangerousExts

\* Whether ProcessEvent hands the event to ScanAndDecide.
Scans(event, scanOnAccess) ==
    /\ event.type \in {"FILE_CREATED", "FILE_MODIFIED", "FILE_RENAMED"}
    /\ \/ Extension(event.path) \in dangerousExts
       \/ scanOnAccess

\* The catch (...) of ScanAndDecide: the only statement that can throw
\* is fs::file_size.
ScanThrows(event, scanOnAccess, cond) ==
    Scans(event, scanOnAccess) /\ FileSizeThrows(cond)

\* ExecuteResponse: what it does to the file of the event.
ExecuteResponse(event, action) ==
    CASE action = "BLOCK" /\ event.type = "FILE_CREATED" -> "DeleteFileImmediate"
      [] action = "BLOCK" -> "nothing"
      [] action = "QUARANTINE" -> "MoveFileW"
      [] OTHER -> "nothing"

VARIABLES
    e_config,     \* [autoQuarantine, scanOnAccess, callback : BOOLEAN]
    e_stats,      \* m_stats: totalEvents, threatsBlocked, filesQuarantined, scanErrors
    e_pc,         \* "idle", "process505", "callback508", "respond516"
    e_event,      \* the event popped from the queue
    e_action,     \* ResponseAction decided for it
    e_scan,       \* what ScanAndDecide met: [scanned, cond, level, error]
    e_trace,      \* what was done for the event, in order
    e_base,       \* m_stats when the event was popped
    e_handled,    \* number of events handled
    e_last        \* summary of the last handled event

evars == <<e_config, e_stats, e_pc, e_event, e_action, e_scan, e_trace,
           e_base, e_handled, e_last>>

NoScan == [scanned |-> FALSE, cond |-> "none", level |-> "none", error |-> FALSE]

NoHandled ==
    [id |-> 0, type |-> "NONE", path |-> "", action |-> "NONE", scan |-> NoScan,
     trace |-> <<>>, dErrors |-> 0, dBlocked |-> 0, dQuarantined |-> 0,
     dTotal |-> 0]

ZeroStats ==
    [totalEvents |-> 0, threatsBlocked |-> 0, filesQuarantined |-> 0,
     scanErrors |-> 0]

\* Initialize(config) with any configuration; SetEventCallback is called
\* (or not) before Start.
EInit ==
    /\ e_config \in [autoQuarantine : BOOLEAN, scanOnAccess : BOOLEAN,
                     callback : BOOLEAN]
    /\ e_stats = ZeroStats
    /\ e_pc = "idle"
    /\ e_event = NoEvent
    /\ e_action = "NONE"
    /\ e_scan = NoScan
    /\ e_trace = <<>>
    /\ e_base = ZeroStats
    /\ e_handled = 0
    /\ e_last = NoHandled

\* Lines 497-500: the processor pops an event.
EDequeue(type, path) ==
    /\ e_pc = "idle"
    /\ e_handled < MaxHandled
    /\ e_event' = [id |-> e_handled + 1, type |-> type, path |-> path]
    /\ e_action' = "NONE"
    /\ e_scan' = NoScan
    /\ e_trace' = <<>>
    /\ e_base' = e_stats
    /\ e_pc' = "process505"
    /\ UNCHANGED <<e_config, e_stats, e_handled, e_last>>

\* Line 505: ProcessEvent(event), with ScanAndDecide's catch block.
EProcess(cond, level) ==
    /\ e_pc = "process505"
    /\ LET scanned == Scans(e_event, e_config.scanOnAccess)
           error   == ScanThrows(e_event, e_config.scanOnAccess, cond)
       IN  /\ e_action' = ProcessEvent(e_event)
           /\ e_scan' = IF scanned
                        THEN [scanned |-> TRUE, cond |-> cond,
                              level |-> IF cond = "readable" THEN level ELSE "none",
                              error |-> error]
                        ELSE NoScan
           /\ e_stats' = IF error
                         THEN [e_stats EXCEPT !.scanErrors = @ + 1]
                         ELSE e_stats
    /\ e_pc' = "callback508"
    /\ UNCHANGED <<e_config, e_event, e_trace, e_base, e_handled, e_last>>

\* A processor that never reports.
InvokeCallbackNever(trace, registered, event, action) == trace

\* Lines 510-512: if (m_eventCallback) m_eventCallback(event, action).
InvokeCallback(trace, registered, event, action) ==
    IF registered
    THEN Append(trace, [step |-> "callback", event |-> event.id,
                        action |-> action])
    ELSE trace

\* Lines 508-513: the callback, under m_callbackMutex.
ECallback ==
    /\ e_pc = "callback508"
    /\ e_trace' = InvokeCallback(e_trace, e_config.callback, e_event, e_action)
    /\ e_pc' = "respond516"
    /\ UNCHANGED <<e_config, e_stats, e_event, e_action, e_scan, e_base,
                   e_handled, e_last>>

\* Lines 516-524: ExecuteResponse unless ALLOW, then the statistics.
ERespond ==
    /\ e_pc = "respond516"
    /\ LET trace == IF e_action # "ALLOW"
                    THEN Append(e_trace,
                                [step |-> ExecuteResponse(e_event, e_action),
                                 event |-> e_event.id, action |-> e_action])
                    ELSE e_trace
           stats == [e_stats EXCEPT
                       !.totalEvents = @ + 1,
                       !.threatsBlocked = IF e_action = "BLOCK" THEN @ + 1 ELSE @,
                       !.filesQuarantined =
                           IF e_action = "QUARANTINE" THEN @ + 1 ELSE @]
       IN  /\ e_trace' = trace
           /\ e_stats' = stats
           /\ e_last' = [id |-> e_event.id, type |-> e_event.type,
                         path |-> e_event.path, action |-> e_action,
                         scan |-> e_scan, trace |-> trace,
                         dErrors |-> stats.scanErrors - e_base.scanErrors,
                         dBlocked |-> stats.threatsBlocked - e_base.threatsBlocked,
                         dQuarantined |->
                             stats.filesQuarantined - e_base.filesQuarantined,
                         dTotal |-> stats.totalEvents - e_base.totalEvents]
    /\ e_handled' = e_handled + 1
    /\ e_pc' = "idle"
    /\ UNCHANGED <<e_config, e_event, e_action, e_scan, e_base>>

(* ================================================================== *)
(*  Part 5.  FeatureExtractor  (Core/FeatureExtractor.cpp and the      *)
(*           second implementation Core/FeatureExtractor_impl.cpp)     *)
(*                                                                     *)
(*  A feature vector is represented by the number of its elements      *)
(*  (data.size()); the element values play no part in the shaping.     *)
(* ================================================================== *)

MaxExtractCalls == 2

\* ConvertStatsToFeatures: size, entropy, 16 histogram buckets, 3 string
\* statistics.
StatsBaseCount == 21

\* StringsToFeatures(stats, features, features.size(), 32).
StringBuckets == 32

\* ConvertPEToFeatures: 6 header, 3 sizes, 4 section, 3 import features and
\* 9 section-name flags.
PEFeatureCount == 25

\* ConvertBehaviorToFeatures: 3 counts, 5 flags, 10 techniques, 1 score.
BehaviorFeatureCount == 19

\* FeatureExtractor_impl.cpp: std::vector<float> histogram(256, 0.0f).
HistogramSize == 256

\* FeatureExtractor_impl.cpp ExtractFromFile: histogram, entropy, size, PE flag.
ImplFileFeatureCount == 259

\* Configured ExtractionConfig::vectorSize values: below, between, equal to
\* and above the raw feature counts; 512 is the default.
VectorSizes == {0, 1, 19, 21, 64, 256, 259, 512}

\* Files met by ExtractFromFile.
ExtractFiles ==
    {"absent", "unopenable", "empty", "oversized", "unreadable", "data", "pe"}

\* Buffers handed to ExtractFromMemory.
ExtractBuffers == {"empty", "data", "pe"}

FeatureTypes == {"PE_STATIC", "MEMORY_DUMP"}

InvalidVector(message) ==
    [returned |-> TRUE, isValid |-> FALSE, size |-> 0, error |-> message]

ValidVector(n) ==
    [returned |-> TRUE, isValid |-> TRUE, size |-> n, error |-> ""]

\* The call did not return (the process stopped inside it).
NoReturn ==
    [returned |-> FALSE, isValid |-> FALSE, size |-> 0, error |-> "crash"]

\* ReduceDimensions: features.resize(targetSize) when larger.
ReduceDimensions(n, targetSize) == IF n > targetSize THEN targetSize ELSE n

\* ExtractFromMemory lines 460-466: reduce when larger, pad when smaller.
ShapeFeatures(n, vectorSize) ==
    IF n > vectorSize THEN ReduceDimensions(n, vectorSize)
    ELSE IF n < vectorSize THEN vectorSize
    ELSE n

\* NormalizeFeatures dereferences min_element / max_element of the vector:
\* undefined on an empty vector.
NormalizeUndefined(config, n) == config.normalize /\ n = 0

\* ConvertStatsToFeatures.
ConvertStatsToFeatures(config) ==
    StatsBaseCount + (IF config.useStringFeatures THEN StringBuckets ELSE 0)

\* FeatureExtractor::ExtractFromMemory (FeatureExtractor.cpp).
ExtractFromMemory(config, buffer, type, crash) ==
    IF buffer = "empty" THEN InvalidVector("Invalid memory buffer")
    ELSE
      LET raw == ConvertStatsToFeatures(config)
                 + (IF type = "PE_STATIC" /\ buffer = "pe"
                    THEN PEFeatureCount ELSE 0)
          n   == ShapeFeatures(raw, config.vectorSize)
      IN  IF NormalizeUndefined(config, n) /\ crash THEN NoReturn
          ELSE ValidVector(n)

\* FeatureExtractor::ExtractFromFile (FeatureExtractor.cpp).
ExtractFromFile(config, file, crash) ==
    CASE file = "absent"     -> InvalidVector("File not found")
      [] file = "unopenable" -> InvalidVector("Cannot open file")
      [] file \in {"empty", "oversized"} -> InvalidVector("Invalid file size")
      [] file = "unreadable" -> InvalidVector("Failed to read file")
      [] OTHER -> ExtractFromMemory(config, file, "PE_STATIC", crash)

\* FeatureExtractor::ExtractFromBehavior (FeatureExtractor.cpp).
ExtractFromBehavior(config, crash) ==
    LET n == IF BehaviorFeatureCount > config.vectorSize
             THEN ReduceDimensions(BehaviorFeatureCount, config.vectorSize)
             ELSE config.vectorSize
    IN  IF NormalizeUndefined(config, n) /\ crash THEN NoReturn
        ELSE ValidVector(n)

\* FeatureExtractor::ExtractFromFile (FeatureExtractor_impl.cpp): the
\* histogram, three scalars, then padding up to vectorSize; nothing
\* shortens the vector.
ImplExtractFromFile(config, initialized, file) ==
    CASE ~initialized -> InvalidVector("Extractor not initialized")
      [] file \in {"absent", "unopenable"} -> InvalidVector("Failed to open file")
      [] file \in {"empty", "unreadable"} -> InvalidVector("Empty file")
      [] OTHER ->
           ValidVector(IF ImplFileFeatureCount < config.vectorSize
                       THEN config.vectorSize ELSE ImplFileFeatureCount)

\* FeatureExtractor::ExtractFromMemory (FeatureExtractor_impl.cpp):
\* result.data = histogram.
ImplExtractFromMemory(config, buffer) ==
    IF buffer = "empty" THEN InvalidVector("Empty data")
    ELSE ValidVector(HistogramSize)

VARIABLES
    f_config,       \* ExtractionConfig m_config
    f_initialized,  \* m_isInitialized (FeatureExtractor_impl.cpp)
    f_calls,        \* number of extraction calls made
    f_last          \* the last call: entry point, input and FeatureVector

fvars == <<f_config, f_initialized, f_calls, f_last>>

NoExtract ==
    [entry |-> "none", input |-> "none", result |-> InvalidVector("")]

\* A constructed extractor with any configuration.
FInit ==
    /\ f_config \in [vectorSize : VectorSizes, normalize : BOOLEAN,
                     useStringFeatures : BOOLEAN]
    /\ f_initialized \in BOOLEAN
    /\ f_calls = 0
    /\ f_last = NoExtract

FCall(entry, input, result) ==
    /\ f_calls < MaxExtractCalls
    /\ f_calls' = f_calls + 1
    /\ f_last' = [entry |-> entry, input |-> input, result |-> result]
    /\ UNCHANGED <<f_config, f_initialized>>

FExtractFromFile(file, crash) ==
    FCall("ExtractFromFile", file, ExtractFromFile(f_config, file, crash))

FExtractFromMemory(buffer, type, crash) ==
    FCall("ExtractFromMemory", buffer,
          ExtractFromMemory(f_config, buffer, type, crash))

FExtractFromBehavior(crash) ==
    FCall("ExtractFromBehavior", "report", ExtractFromBehavior(f_config, crash))

FImplExtractFromFile(file) ==
    FCall("ExtractFromFile_impl", file,
          ImplExtractFromFile(f_config, f_initialized, file))

FImplExtractFromMemory(buffer) ==
    FCall("ExtractFromMemory_impl", buffer,
          ImplExtractFromMemory(f_config, buffer))

(* ================================================================== *)
(*  Part 6.  ScanEngine::ScanFile  (Core/ScanEngine.cpp)               *)
(*                                                                     *)
(*  Scores are kept in thousandths: 850 stands for 0.85f.              *)
(* ================================================================== *)

MaxScanCalls == 1
MaxLoads == 1

\* enum class ThreatLevel { SAFE, LOW, MEDIUM, HIGH, CRITICAL }: the
\* enumerators and their values.
ThreatLevelValue ==
    [SAFE |-> 0, LOW |-> 1, MEDIUM |-> 2, HIGH |-> 3, CRITICAL |-> 4]

ThreatLevelValues == {ThreatLevelValue[n] : n \in DOMAIN ThreatLevelValue}

\* File contents and the text CalculateSHA256 prints for them
\* ("%02x": lower-case hex).
ScanContents == {"c1", "c2", "c3"}

CalculateFileSHA256(file) ==
    IF ~file.readable THEN ""
    ELSE CASE file.content = "c1" -> "ab01"
           [] file.content = "c2" -> "cd02"
           [] OTHER -> "ef03"

\* Hash texts that can stand in signatures.txt / whitelist.txt.
HashTexts == {"ab01", "AB01", "cd02"}

\* Severity fields of signatures.txt and what std::stoi makes of them.
SeverityTexts == {"0", "2", "4", "7", "-1", "3x", "high"}

StoiThrows(text) == text = "high"

Stoi(text) ==
    CASE text = "0" -> 0
      [] text = "2" -> 2
      [] text = "4" -> 4
      [] text = "7" -> 7
      [] text = "-1" -> 0 - 1
      [] text = "3x" -> 3
      [] OTHER -> 0

\* Lines "HASH|THREAT_NAME|SEVERITY" of a signature file.
SignatureLines ==
    [hash : {"ab01", "cd02"}, name : {"Trojan.Test"}, severity : SeverityTexts]

SignatureFiles ==
    {<<>>} \cup {<<l>> : l \in SignatureLines}
        \cup {<<l1, l2>> : l1 \in SignatureLines, l2 \in {[hash |-> "ab01", name |-> "Trojan.Test", severity |-> "4"]}}

WhitelistFiles == SUBSET {"ab01", "AB01"}

\* LoadSignatures, lines 67-84: clear, then one map entry per line; a
\* severity std::stoi cannot parse throws out of the loop and leaves the
\* entries read so far.
RECURSIVE LoadSignatureLines(_, _)
LoadSignatureLines(lines, table) ==
    IF lines = <<>> THEN table
    ELSE IF StoiThrows(Head(lines).severity) THEN table
    ELSE LoadSignatureLines(
             Tail(lines),
             Put(table, Head(lines).hash,
                 [name |-> Head(lines).name,
                  severity |-> Stoi(Head(lines).severity)]))

LoadSignatures(lines) == LoadSignatureLines(lines, EmptyMap)

\* CheckSignature: m_signatures.find(hash).
CheckSignature(signatures, hash) == hash \in DOMAIN signatures

\* A whitelist that is never consulted.
IsWhitelistedNever(whitelist, hash) == FALSE

\* IsWhitelisted: m_whitelist.find(hash) != end().
IsWhitelisted(whitelist, hash) == hash \in whitelist

\* Scores in thousandths.
HeuristicScores == {0, 500, 800, 1000}

ModelScores == {50 * k : k \in 0 .. 20}

\* Outcomes of AIDetector::Detect as RunAIAnalysis sees them.
AIOutcomes ==
    {[kind |-> "ok", score |-> s] : s \in ModelScores}
        \cup {[kind |-> "ort_exception", score |-> 0],
              [kind |-> "not_initialized", score |-> 0]}

\* AIDetector::Detect / RunInference: the result and the change of
\* m_stats.errors.
DetectOutcome(ai) ==
    CASE ai.kind = "ok" ->
           [isValid |-> TRUE, maliciousScore |-> ai.score, errors |-> 0]
      [] ai.kind = "ort_exception" ->
           [isValid |-> FALSE, maliciousScore |-> 0, errors |-> 1]
      [] OTHER ->
           [isValid |-> FALSE, maliciousScore |-> 0, errors |-> 0]

\* RunAIAnalysis: maliciousScore of a valid result, otherwise 0.
RunAIAnalysis(ai) ==
    IF DetectOutcome(ai).isValid THEN DetectOutcome(ai).maliciousScore ELSE 0

\* Line 287: finalScore = heuristicScore * 0.4f + aiScore * 0.6f.
CombineScores(heuristicScore, aiScore) ==
    (4 * heuristicScore + 6 * aiScore) \div 10

\* A threshold chain without the HIGH band.
LevelOfScoreNoHigh(finalScore) ==
    IF finalScore >= 850 THEN ThreatLevelValue.CRITICAL
    ELSE IF finalScore >= 500 THEN ThreatLevelValue.MEDIUM
    ELSE IF finalScore >= 300 THEN ThreatLevelValue.LOW
    ELSE ThreatLevelValue.SAFE

\* Lines 289-305: the threshold chain (result.level starts as SAFE).
LevelOfScore(finalScore) ==
    IF finalScore >= 850 THEN ThreatLevelValue.CRITICAL
    ELSE IF finalScore >= 700 THEN ThreatLevelValue.HIGH
    ELSE IF finalScore >= 500 THEN ThreatLevelValue.MEDIUM
    ELSE IF finalScore >= 300 THEN ThreatLevelValue.LOW
    ELSE ThreatLevelValue.SAFE

\* Lines 289-305: result.method (the default is SIGNATURE).
MethodOfScore(finalScore) ==
    IF finalScore >= 700 THEN "AI"
    ELSE IF finalScore >= 300 THEN "HEURISTIC"
    ELSE "SIGNATURE"

\* Files handed to ScanFile: content, whether it can be opened, the score
\* RunHeuristicAnalysis gives it, whether ExtractFeatures yields a vector.
ScanFiles ==
    [content : ScanContents, readable : BOOLEAN, heuristic : HeuristicScores,
     features : BOOLEAN]

\* ScanEngine::ScanFile: the ThreatInfo, the stages that ran, the scores
\* and the change of the detector's error counter.
ScanFile(file, signatures, whitelist, ai) ==
    LET hash == CalculateFileSHA256(file)
        base == [sha256Hash |-> hash, level |-> ThreatLevelValue.SAFE,
                 method |-> "SIGNATURE", confidence |-> 0, threatName |-> "",
                 details |-> ""]
        none == [heuristic |-> 0, ai |-> 0, final |-> 0]
    IN  IF hash = ""
        THEN [result |-> base, stages |-> {"hash"}, scores |-> none,
              aiErrors |-> 0]
        ELSE IF IsWhitelisted(whitelist, hash)
        THEN [result |-> base, stages |-> {"hash", "whitelist"},
              scores |-> none, aiErrors |-> 0]
        ELSE IF CheckSignature(signatures, hash)
        THEN [result |-> [base EXCEPT
                            !.threatName = signatures[hash].name,
                            !.confidence = 1000,
                            !.level = signatures[hash].severity],
              stages |-> {"hash", "whitelist", "signature"},
              scores |-> none, aiErrors |-> 0]
        ELSE
          LET heuristicScore == file.heuristic
              aiRan      == file.features
              aiScore    == IF aiRan THEN RunAIAnalysis(ai) ELSE 0
              finalScore == CombineScores(heuristicScore, aiScore)
          IN  [result |-> [base EXCEPT
                             !.level = LevelOfScore(finalScore),
                             !.method = MethodOfScore(finalScore),
                             !.confidence = finalScore,
                             !.threatName =
                                 IF finalScore >= 300 THEN "HEUR" ELSE "",
                             \* the indicator list (310-318): an indicator is
                             \* pushed with every addition to the score
                             !.details =
                                 IF heuristicScore > 0 THEN "Indicators" ELSE ""],
               stages |-> {"hash", "whitelist", "signature", "heuristic"}
                              \cup (IF aiRan THEN {"ai"} ELSE {}),
               scores |-> [heuristic |-> heuristicScore, ai |-> aiScore,
                           final |-> finalScore],
               aiErrors |-> IF aiRan THEN DetectOutcome(ai).errors ELSE 0]

VARIABLES
    m_signatures,   \* hash -> [name, severity]
    m_whitelist,    \* set of hash texts
    s_aiErrors,     \* AIDetector m_stats.errors
    s_loads,        \* number of table loads made
    s_calls,        \* number of ScanFile calls made
    s_last          \* the last ScanFile call

svars == <<m_signatures, m_whitelist, s_aiErrors, s_loads, s_calls, s_last>>

NoScanCall ==
    [called |-> FALSE,
     file |-> [content |-> "c1", readable |-> FALSE, heuristic |-> 0,
               features |-> FALSE],
     ai |-> [kind |-> "not_initialized", score |-> 0],
     out |-> [result |-> [sha256Hash |-> "", level |-> 0,
                          method |-> "SIGNATURE", confidence |-> 0,
                          threatName |-> "", details |-> ""],
              stages |-> {}, scores |-> [heuristic |-> 0, ai |-> 0, final |-> 0],
              aiErrors |-> 0]]

\* A constructed ScanEngine: both tables empty.
SInit ==
    /\ m_signatures = EmptyMap
    /\ m_whitelist = {}
    /\ s_aiErrors = 0
    /\ s_loads = 0
    /\ s_calls = 0
    /\ s_last = NoScanCall

\* Initialize, line 45: LoadSignatures(sigFile) on a file that opens. The
\* tables are loaded by Initialize, before the scan is started.
SLoadSignatures(lines) ==
    /\ s_calls = 0
    /\ s_loads < MaxLoads
    /\ s_loads' = s_loads + 1
    /\ m_signatures' = LoadSignatures(lines)
    /\ UNCHANGED <<m_whitelist, s_aiErrors, s_calls, s_last>>

\* Initialize, line 46: LoadWhitelist(whitelistFile) on a file that opens.
SLoadWhitelist(hashes) ==
    /\ s_calls = 0
    /\ m_whitelist' = hashes
    /\ UNCHANGED <<m_signatures, s_aiErrors, s_loads, s_calls, s_last>>

\* ScanFile(filePath).
SScanFile(file, ai) ==
    /\ s_calls < MaxScanCalls
    /\ LET out == ScanFile(file, m_signatures, m_whitelist, ai)
       IN  /\ s_last' = [called |-> TRUE, file |-> file, ai |-> ai, out |-> out]
           /\ s_aiErrors' = s_aiErrors + out.aiErrors
    /\ s_calls' = s_calls + 1
    /\ UNCHANGED <<m_signatures, m_whitelist, s_loads>>

(* ================================================================== *)
(*  Part 7.  QuarantineManager::QuarantineFile called by two threads   *)
(*           (Security/Quarantine.cpp, lines 419-525)                  *)
(*                                                                     *)
(*  The call is cut where it takes or releases m_entriesMutex and      *)
(*  where it touches the file system, so that the calls of the event   *)
(*  processor and of the on-demand scan interleave as the locks allow. *)
(*  Callers pass absolute paths.                                       *)
(* ================================================================== *)

MaxConcCalls == 3

CQThreads == {"processor", "scan"}

VARIABLES
    cq_disk,      \* absolute paths at which a file exists
    cq_qdir,      \* quarantine paths at which an artifact exists
    cq_entries,   \* m_entries: quarantineId -> [originalPath, quarantinePath]
    cq_uuid,      \* number of UUIDs handed out
    cq_pc,        \* per thread: "idle", "size439", "copy462", "insert501", "delete506"
    cq_local,     \* per thread: filePath and the entry being built
    cq_result,    \* per thread: result of its last call
    cq_calls      \* number of calls started

cqvars == <<cq_disk, cq_qdir, cq_entries, cq_uuid, cq_pc, cq_local, cq_result,
            cq_calls>>

NoLocal == [filePath |-> "", id |-> 0, originalPath |-> "", quarantinePath |-> 0]

\* An initialized manager with an empty index; the files are on disk.
CQInit ==
    /\ cq_disk = AbsPaths
    /\ cq_qdir = {}
    /\ cq_entries = EmptyMap
    /\ cq_uuid = 0
    /\ cq_pc = [t \in CQThreads |-> "idle"]
    /\ cq_local = [t \in CQThreads |-> NoLocal]
    /\ cq_result = [t \in CQThreads |-> "none"]
    /\ cq_calls = 0

\* The environment puts the file back (the malware drops itself again).
CQWriteFile(a) ==
    /\ a \notin cq_disk
    /\ cq_disk' = cq_disk \cup {a}
    /\ UNCHANGED <<cq_qdir, cq_entries, cq_uuid, cq_pc, cq_local, cq_result,
                   cq_calls>>

\* Lines 424-436: fs::exists, then FindEntryByOriginalPath under a shared
\* lock that is released when it returns.
CQCheck(t, filePath) ==
    /\ cq_pc[t] = "idle"
    /\ cq_calls < MaxConcCalls
    /\ cq_calls' = cq_calls + 1
    /\ IF filePath \notin cq_disk
       THEN /\ cq_result' = [cq_result EXCEPT ![t] = "FILE_NOT_FOUND"]
            /\ UNCHANGED <<cq_pc, cq_local>>
       ELSE IF FindEntryByOriginalPath(cq_entries, filePath)
       THEN /\ cq_result' = [cq_result EXCEPT ![t] = "ALREADY_QUARANTINED"]
            /\ UNCHANGED <<cq_pc, cq_local>>
       ELSE /\ cq_pc' = [cq_pc EXCEPT ![t] = "size439"]
            /\ cq_local' = [cq_local EXCEPT ![t] = [NoLocal EXCEPT !.filePath = filePath]]
            /\ cq_result' = [cq_result EXCEPT ![t] = "running"]
    /\ UNCHANGED <<cq_disk, cq_qdir, cq_entries, cq_uuid>>

\* Lines 439-460: fs::file_size (throws out of the call when the file is
\* gone), then the entry with two fresh UUIDs.
CQSize(t) ==
    /\ cq_pc[t] = "size439"
    /\ IF cq_local[t].filePath \notin cq_disk
       THEN /\ cq_pc' = [cq_pc EXCEPT ![t] = "idle"]
            /\ cq_result' = [cq_result EXCEPT ![t] = "EXCEPTION"]
            /\ cq_local' = [cq_local EXCEPT ![t] = NoLocal]
            /\ UNCHANGED cq_uuid
       ELSE /\ cq_pc' = [cq_pc EXCEPT ![t] = "copy462"]
            /\ cq_local' = [cq_local EXCEPT ![t] =
                              [filePath |-> @.filePath,
                               id |-> cq_uuid + 1,
                               originalPath |-> Absolute(@.filePath),
                               quarantinePath |-> cq_uuid + 2]]
            /\ cq_uuid' = cq_uuid + 2
            /\ UNCHANGED cq_result
    /\ UNCHANGED <<cq_disk, cq_qdir, cq_entries, cq_calls>>

\* Lines 462-497: copy (or compress), encrypt or rename, metadata; a
\* missing source makes fs::copy_file throw, caught at 521.
CQCopy(t) ==
    /\ cq_pc[t] = "copy462"
    /\ IF cq_local[t].filePath \notin cq_disk
       THEN /\ cq_pc' = [cq_pc EXCEPT ![t] = "idle"]
            /\ cq_result' = [cq_result EXCEPT ![t] = "UNKNOWN_ERROR"]
            /\ cq_local' = [cq_local EXCEPT ![t] = NoLocal]
            /\ UNCHANGED cq_qdir
       ELSE /\ cq_pc' = [cq_pc EXCEPT ![t] = "insert501"]
            /\ cq_qdir' = cq_qdir \cup {cq_local[t].quarantinePath}
            /\ UNCHANGED <<cq_result, cq_local>>
    /\ UNCHANGED <<cq_disk, cq_entries, cq_uuid, cq_calls>>

\* Lines 500-503: m_entries[entry.quarantineId] = entry under a unique lock.
CQInsert(t) ==
    /\ cq_pc[t] = "insert501"
    /\ cq_entries' = Put(cq_entries, cq_local[t].id,
                         [originalPath |-> cq_local[t].originalPath,
                          quarantinePath |-> cq_local[t].quarantinePath])
    /\ cq_pc' = [cq_pc EXCEPT ![t] = "delete506"]
    /\ UNCHANGED <<cq_disk, cq_qdir, cq_uuid, cq_local, cq_result, cq_calls>>

\* Lines 505-518: remove the original (fs::remove of a missing file
\* returns false, SecureDelete's result is ignored), return SUCCESS.
CQDelete(t) ==
    /\ cq_pc[t] = "delete506"
    /\ cq_disk' = cq_disk \ {cq_local[t].filePath}
    /\ cq_pc' = [cq_pc EXCEPT ![t] = "idle"]
    /\ cq_result' = [cq_result EXCEPT ![t] = "SUCCESS"]
    /\ cq_local' = [cq_local EXCEPT ![t] = NoLocal]
    /\ UNCHANGED <<cq_qdir, cq_entries, cq_uuid, cq_calls>>

(* ================================================================== *)
(*  Part 8.  AIDetector::IsMalicious                                   *)
(*           (AI/AIDetector.cpp, lines 590-642; AI/AIDetector_impl.cpp, *)
(*           lines 50-147).  Scores and thresholds in thousandths.     *)
(* ================================================================== *)

MaxVerdictCalls == 2

\* Values of m_config.detectionThreshold: the two defaults (0.7, 0.75) and
\* values given to SetThreshold.
Thresholds == {0, 500, 700, 750, 1000}

\* Malicious probabilities the model can put out.
OutputScores == {0, 250, 500, 700, 750, 800, 1000}

\* What Detect has to work with: the detector is not usable ("invalid": not
\* initialized, input shape rejected, or RunInference failed), or the model
\* gave an output tensor of n elements whose malicious probability is p
\* (output[0] for n = 1, Softmax(output)[1] for n >= 2).
ModelOutputs ==
    {[kind |-> "invalid", n |-> 0, p |-> 0]}
        \cup {[kind |-> "output", n |-> n, p |-> p] : n \in {1, 2}, p \in OutputScores}
        \cup {[kind |-> "output", n |-> 0, p |-> 0]}

\* ProcessOutput(output), lines 590-618: strict comparison with the
\* threshold; an empty output leaves the defaults of AIDetectionResult.
ProcessOutput(out, threshold) ==
    IF out.n >= 1
    THEN [isValid |-> TRUE, maliciousScore |-> out.p,
          isMalicious |-> (out.p > threshold)]
    ELSE [isValid |-> TRUE, maliciousScore |-> 0, isMalicious |-> FALSE]

\* Detect, as far as the verdict goes (446-503).
DetectResult(out, threshold) ==
    IF out.kind = "invalid"
    THEN [isValid |-> FALSE, maliciousScore |-> 0, isMalicious |-> FALSE]
    ELSE ProcessOutput(out, threshold)

\* IsMalicious, lines 633-642.
IsMalicious(result) == result.isValid /\ result.isMalicious

\* AIDetector_impl.cpp: Detect (50-141) gives an invalid result with score 0
\* or a valid one with the heuristic score; IsMalicious (143-147) compares
\* the score with >= and does not look at isValid.
ImplDetectResult(out) ==
    IF out.kind = "invalid"
    THEN [isValid |-> FALSE, maliciousScore |-> 0]
    ELSE [isValid |-> TRUE, maliciousScore |-> out.p]

ImplIsMalicious(result, threshold) == result.maliciousScore >= threshold

VARIABLES
    t_threshold,   \* m_config.detectionThreshold
    t_calls,       \* IsMalicious calls made
    t_last         \* history: the last IsMalicious call

tvars == <<t_threshold, t_calls, t_last>>

NoVerdict == [called |-> FALSE, impl |-> FALSE, isValid |-> FALSE,
              maliciousScore |-> 0, threshold |-> 0, returned |-> FALSE]

TInit ==
    /\ t_threshold \in {700, 750}
    /\ t_calls = 0
    /\ t_last = NoVerdict

\* SetThreshold (AIDetector.cpp:176).
TSetThreshold(th) ==
    /\ t_calls < MaxVerdictCalls
    /\ th # t_threshold
    /\ t_threshold' = th
    /\ UNCHANGED <<t_calls, t_last>>

\* IsMalicious(featureVector, confidence) of AIDetector.cpp.
TIsMalicious(out) ==
    /\ t_calls < MaxVerdictCalls
    /\ LET result == DetectResult(out, t_threshold)
       IN  t_last' = [called |-> TRUE, impl |-> FALSE,
                      isValid |-> result.isValid,
                      maliciousScore |-> result.maliciousScore,
                      threshold |-> t_threshold,
                      returned |-> IsMalicious(result)]
    /\ t_calls' = t_calls + 1
    /\ UNCHANGED t_threshold

\* IsMalicious(featureVector, confidence) of AIDetector_impl.cpp.
TImplIsMalicious(out) ==
    /\ t_calls < MaxVerdictCalls
    /\ LET result == ImplDetectResult(out)
       IN  t_last' = [called |-> TRUE, impl |-> TRUE,
                      isValid |-> result.isValid,
                      maliciousScore |-> result.maliciousScore,
                      threshold |-> t_threshold,
                      returned |-> ImplIsMalicious(result, t_threshold)]
    /\ t_calls' = t_calls + 1
    /\ UNCHANGED t_threshold

(* ================================================================== *)
(*  Part 9.  The exception list of RealTimeMonitor                     *)
(*           (Core/RealTimeMonitor.cpp, AddException, RemoveException, *)
(*           IsException and the two threads that meet its events)     *)
(* ================================================================== *)

\* number of notifications and of AddException / RemoveException calls
MaxExcEvents == 3
MaxExcCalls == 3

\* Paths handed to AddException / RemoveException.
ExceptionPaths == {"C:\\w1", "w2", "w2\\f"}

VARIABLES
    m_exceptions,   \* the exception set
    x_queue,        \* m_eventQueue.queue: file paths of the queued events
    x_watcher,      \* "running", or "isException451": inside a call that does not return
    x_events,       \* notifications received so far
    x_calls,        \* AddException / RemoveException calls so far
    x_last          \* history: the last event given to ProcessEvent

excvars == <<m_exceptions, x_queue, x_watcher, x_events, x_calls, x_last>>

NoExcHandled == [handled |-> FALSE, path |-> "", covered |-> FALSE, waited |-> FALSE]

XInit ==
    /\ m_exceptions = {}
    /\ x_queue = <<>>
    /\ x_watcher = "running"
    /\ x_events = 0
    /\ x_calls = 0
    /\ x_last = NoExcHandled

\* path, or one of its ancestor directories, is in the exception set.
Covered(path, exceptions) ==
    \E q \in exceptions :
        q \in {path, ParentPath(path), ParentPath(ParentPath(path))}

\* Lines 661-664: under the exclusive lock on m_exceptionsMutex, which is
\* not to be had while a watcher holds the shared lock inside IsException.
AddException(path) ==
    /\ x_calls < MaxExcCalls
    /\ x_watcher = "running"
    /\ m_exceptions' = m_exceptions \cup {path}
    /\ x_calls' = x_calls + 1
    /\ UNCHANGED <<x_queue, x_watcher, x_events, x_last>>

\* Lines 666-669.
RemoveException(path) ==
    /\ x_calls < MaxExcCalls
    /\ x_watcher = "running"
    /\ m_exceptions' = m_exceptions \ {path}
    /\ x_calls' = x_calls + 1
    /\ UNCHANGED <<x_queue, x_watcher, x_events, x_last>>

\* DirectoryMonitorThread, lines 448-467: IsException is asked once, before
\* the event is queued.
XObserve(w) ==
    /\ x_events < MaxExcEvents
    /\ x_watcher = "running"
    /\ x_events' = x_events + 1
    /\ LET excepted == IsException(FullPath(w), m_exceptions)
       IN  /\ x_watcher' = IF excepted = "never" THEN "isException451" ELSE "running"
           /\ x_queue' = IF excepted = "false" /\ Len(x_queue) < MaxQueueSize
                         THEN Append(x_queue, FullPath(w)) ELSE x_queue
    /\ UNCHANGED <<m_exceptions, x_calls, x_last>>

\* EventProcessorThread, lines 497-511: the front event goes to
\* ProcessEvent and to the callback; the exception set is not consulted.
XProcess ==
    /\ x_queue # <<>>
    /\ x_queue' = Tail(x_queue)
    /\ x_last' = [handled |-> TRUE, path |-> Head(x_queue),
                  covered |-> Covered(Head(x_queue), m_exceptions),
                  waited |-> TRUE]
    /\ UNCHANGED <<m_exceptions, x_watcher, x_events, x_calls>>

(* ================================================================== *)
(*  Part 10.  Structural parsing of a PE buffer                        *)
(*            (Core/FeatureExtractor.cpp, GetNtHeaders and             *)
(*            ParsePEAdvanced)                                         *)
(* ================================================================== *)

\* number of ParsePEAdvanced calls in one run
MaxParseCalls == 2

\* sizeof(IMAGE_DOS_HEADER), sizeof(IMAGE_NT_HEADERS) of a 64-bit build,
\* FIELD_OFFSET(IMAGE_NT_HEADERS, OptionalHeader) and
\* sizeof(IMAGE_SECTION_HEADER).
SizeofDosHeader == 64
SizeofNtHeaders == 264
OffsetofOptionalHeader == 24
SizeofSectionHeader == 40

\* Buffer lengths, and values of the header fields e_lfanew (a LONG),
\* FileHeader.NumberOfSections and FileHeader.SizeOfOptionalHeader (WORDs).
BufferSizes == {32, 64, 400, 1000}
LfanewValues == {-300, -8, 64, 128, 900, 2147483000}
SectionCounts == {0, 1, 3, 65535}
OptionalHeaderSizes == {240}

VARIABLES
    pe_calls,   \* calls so far
    pe_last     \* history: the last call, what it read and how it ended

pevars == <<pe_calls, pe_last>>

NoParse == [called |-> FALSE, size |-> 0, e_lfanew |-> 0, sections |-> 0,
            lo |-> 0, hi |-> 0, result |-> "none"]

PEInit ==
    /\ pe_calls = 0
    /\ pe_last = NoParse

\* Line 875: size < dosHeader->e_lfanew + sizeof(IMAGE_NT_HEADERS).  The
\* sum is formed in size_t (64 bits): e_lfanew is converted to
\* 2^64 + e_lfanew when negative and the addition is modulo 2^64.  For
\* e_lfanew + sizeof >= 0 the sum is e_lfanew + sizeof (wrapped round
\* when e_lfanew < 0); otherwise it is 2^64 + e_lfanew + sizeof, above
\* every buffer length.
HeadersBeyondSize(size, e_lfanew) ==
    IF e_lfanew + SizeofNtHeaders < 0 THEN TRUE
    ELSE size < e_lfanew + SizeofNtHeaders

\* The offsets from lo up to hi (exclusive) were read; [0, 0) is nothing.
Reads(lo, hi) == [lo |-> lo, hi |-> hi]

\* Both ranges together, as the extent from the lowest to the highest.
Extent(r, s) ==
    IF r.lo = r.hi THEN s
    ELSE IF s.lo = s.hi THEN r
    ELSE [lo |-> IF r.lo < s.lo THEN r.lo ELSE s.lo,
          hi |-> IF r.hi > s.hi THEN r.hi ELSE s.hi]

Inside(r, size) == r.lo = r.hi \/ (0 <= r.lo /\ r.hi <= size)

\* GetNtHeaders, lines 869-881: the offset of the NT headers, or "null".
\* magic and signature tell whether the two marks match where they are
\* read.
GetNtHeaders(size, magic, e_lfanew, signature) ==
    IF size < SizeofDosHeader
    THEN [nt |-> "null", reads |-> Reads(0, 0)]
    ELSE IF ~magic
    THEN [nt |-> "null", reads |-> Reads(0, SizeofDosHeader)]
    ELSE IF HeadersBeyondSize(size, e_lfanew)
    THEN [nt |-> "null", reads |-> Reads(0, SizeofDosHeader)]
    ELSE IF ~signature
    THEN [nt |-> "null",
          reads |-> Extent(Reads(0, SizeofDosHeader), Reads(e_lfanew, e_lfanew + 4))]
    ELSE [nt |-> "at",
          reads |-> Extent(Reads(0, SizeofDosHeader), Reads(e_lfanew, e_lfanew + 4))]

\* ParsePEAdvanced, lines 610-662: the header fields, then one section
\* header for each of NumberOfSections (the table starts at
\* IMAGE_FIRST_SECTION(ntHeaders), line 649), then ExtractPEImports, which
\* reads the data directory inside the NT headers.
ParsePEAdvanced(size, magic, e_lfanew, signature, sections, optSize) ==
    LET g     == GetNtHeaders(size, magic, e_lfanew, signature)
        first == e_lfanew + OffsetofOptionalHeader + optSize
        table == Reads(first, first + sections * SizeofSectionHeader)
        hdrs  == Reads(e_lfanew, e_lfanew + SizeofNtHeaders)
    IN  IF g.nt = "null"
        THEN [parsed |-> FALSE, reads |-> g.reads]
        ELSE [parsed |-> TRUE,
              reads |-> Extent(Extent(g.reads, hdrs),
                               IF sections = 0 THEN Reads(0, 0) ELSE table)]

\* ExtractFromMemory, lines 451-456: IsValidPE, then ParsePEAdvanced.  A
\* read outside the buffer finds whatever lies there (signature is then
\* arbitrary) or faults, which ends the process.
PEParse(size, magic, e_lfanew, signature, sections, optSize, fault) ==
    /\ pe_calls < MaxParseCalls
    /\ LET r == ParsePEAdvanced(size, magic, e_lfanew, signature, sections, optSize)
           outside == ~Inside(r.reads, size)
       IN  /\ fault => outside
           /\ pe_last' = [called |-> TRUE, size |-> size, e_lfanew |-> e_lfanew,
                          sections |-> sections,
                          lo |-> r.reads.lo, hi |-> r.reads.hi,
                          result |-> IF fault THEN "fault"
                                     ELSE IF r.parsed THEN "structural"
                                     ELSE "omitted"]
    /\ pe_calls' = pe_calls + 1

(* ================================================================== *)
(*  Part 11.  Start, Stop, AddWatchPath and RemoveWatchPath of         *)
(*            RealTimeMonitor called from several threads              *)
(*            (Core/RealTimeMonitor.cpp)                               *)
(* ================================================================== *)

\* number of calls in one run, and of thread objects in m_monitorThreads
MaxLifeCalls == 4
MaxLifeThreads == 3

\* The threads that call the monitor, and the directories they name
\* (relative paths: the watcher of an absolute path does not get past
\* IsException).
Callers == {"A", "B"}
LifePaths == {"w1", "w2"}

VARIABLES
    lc_isRunning,      \* m_isRunning
    lc_stopRequested,  \* m_stopRequested
    lc_paths,          \* m_watchedPaths
    lc_threads,        \* m_monitorThreads: path and state of each thread object
    lc_proc,           \* m_eventProcessorThread: "none" (not joinable), "alive", "finished"
    lc_pm,             \* m_processMonitorThread, likewise
    lc_pc,             \* per caller: where it is inside its call
    lc_arg,            \* per caller: the path of its AddWatchPath call
    lc_calls,          \* calls made so far
    lc_aborted,        \* std::terminate was called
    lc_removed,        \* history: paths removed on a running monitor, not added since
    lc_last,           \* history: the last call that returned
    lc_push            \* history: the last event pushed by a watcher

lcvars == <<lc_isRunning, lc_stopRequested, lc_paths, lc_threads, lc_proc,
            lc_pm, lc_pc, lc_arg, lc_calls, lc_aborted, lc_removed, lc_last,
            lc_push>>

NoLifeCall == [op |-> "none", result |-> FALSE, wasRunning |-> FALSE,
               created |-> FALSE, live |-> FALSE, unjoined |-> FALSE,
               corresponds |-> TRUE]

NoLifePush == [pushed |-> FALSE, path |-> "", removed |-> FALSE]

\* After Initialize: one watched directory, nothing running.
LInit ==
    /\ lc_isRunning = FALSE
    /\ lc_stopRequested = FALSE
    /\ lc_paths = {"w1"}
    /\ lc_threads = <<>>
    /\ lc_proc = "none"
    /\ lc_pm = "none"
    /\ lc_pc = [c \in Callers |-> "idle"]
    /\ lc_arg = [c \in Callers |-> ""]
    /\ lc_calls = 0
    /\ lc_aborted = FALSE
    /\ lc_removed = {}
    /\ lc_last = NoLifeCall
    /\ lc_push = NoLifePush

\* A watcher, the event processor or the process monitor is running.
LiveThread(threads, proc, pm) ==
    \/ \E i \in 1..Len(threads) : threads[i].st = "alive"
    \/ proc = "alive"
    \/ pm = "alive"

\* A thread object is joinable: its thread was started and not joined.
UnjoinedThread(threads, proc, pm) ==
    threads # <<>> \/ proc # "none" \/ pm # "none"

\* The paths of the running watcher threads.
LivePaths(threads) ==
    {threads[i].path : i \in {j \in 1..Len(threads) : threads[j].st = "alive"}}

\* Some caller holds m_pathsMutex (inside AddWatchPath).
PathsMutexHeld == \E c \in Callers : lc_pc[c] = "add374"

\* One more thread object, running path's DirectoryMonitorThread.
RECURSIVE SpawnWatchers(_, _)
SpawnWatchers(threads, paths) ==
    IF paths = {} THEN threads
    ELSE LET p == CHOOSE q \in paths : TRUE
         IN  SpawnWatchers(Append(threads, [path |-> p, st |-> "alive"]),
                           paths \ {p})

\* Start, lines 301-303: m_isRunning.exchange(true); a monitor that was
\* running makes the call return false.
LStartEnter(c) ==
    /\ ~lc_aborted
    /\ lc_pc[c] = "idle"
    /\ lc_calls < MaxLifeCalls
    /\ lc_calls' = lc_calls + 1
    /\ lc_isRunning' = TRUE
    /\ IF lc_isRunning
       THEN /\ lc_last' = [NoLifeCall EXCEPT !.op = "Start", !.wasRunning = TRUE]
            /\ UNCHANGED lc_pc
       ELSE /\ lc_pc' = [lc_pc EXCEPT ![c] = "start305"]
            /\ UNCHANGED lc_last
    /\ UNCHANGED <<lc_stopRequested, lc_paths, lc_threads, lc_proc, lc_pm,
                   lc_arg, lc_aborted, lc_removed, lc_push>>

\* Start, lines 305-322: the stop flag is cleared, one watcher thread is
\* created per watched path under m_pathsMutex, then the two thread
\* members are assigned.  Assigning to a std::thread that is joinable
\* calls std::terminate.
LStartThreads(c) ==
    /\ ~lc_aborted
    /\ lc_pc[c] = "start305"
    /\ ~PathsMutexHeld
    /\ Len(lc_threads) + Cardinality(lc_paths) <= MaxLifeThreads
    /\ lc_stopRequested' = FALSE
    /\ lc_threads' = SpawnWatchers(lc_threads, lc_paths)
    /\ IF lc_proc # "none" \/ lc_pm # "none"
       THEN /\ lc_aborted' = TRUE
            /\ UNCHANGED <<lc_proc, lc_pm, lc_last>>
       ELSE /\ lc_proc' = "alive"
            /\ lc_pm' = "alive"
            /\ lc_last' = [NoLifeCall EXCEPT !.op = "Start", !.result = TRUE,
                                             !.created = TRUE]
            /\ UNCHANGED lc_aborted
    /\ lc_pc' = [lc_pc EXCEPT ![c] = "idle"]
    /\ UNCHANGED <<lc_isRunning, lc_paths, lc_arg, lc_calls, lc_removed, lc_push>>

\* Stop, lines 326-328: m_isRunning.exchange(false); a monitor that was
\* not running makes the call return.
LStopEnter(c) ==
    /\ ~lc_aborted
    /\ lc_pc[c] = "idle"
    /\ lc_calls < MaxLifeCalls
    /\ lc_calls' = lc_calls + 1
    /\ lc_isRunning' = FALSE
    /\ IF lc_isRunning
       THEN /\ lc_pc' = [lc_pc EXCEPT ![c] = "stop330"]
            /\ UNCHANGED lc_last
       ELSE /\ lc_last' = [NoLifeCall EXCEPT !.op = "StopNotRunning"]
            /\ UNCHANGED lc_pc
    /\ UNCHANGED <<lc_stopRequested, lc_paths, lc_threads, lc_proc, lc_pm,
                   lc_arg, lc_aborted, lc_removed, lc_push>>

\* Stop, line 330.
LStopRequest(c) ==
    /\ ~lc_aborted
    /\ lc_pc[c] = "stop330"
    /\ lc_stopRequested' = TRUE
    /\ lc_pc' = [lc_pc EXCEPT ![c] = "stop333"]
    /\ UNCHANGED <<lc_isRunning, lc_paths, lc_threads, lc_proc, lc_pm, lc_arg,
                   lc_calls, lc_aborted, lc_removed, lc_last, lc_push>>

\* Stop, lines 333-338: every thread object of m_monitorThreads is joined,
\* which waits for its thread to end, and the vector is cleared.
LStopJoinWatchers(c) ==
    /\ ~lc_aborted
    /\ lc_pc[c] = "stop333"
    /\ \A i \in 1..Len(lc_threads) : lc_threads[i].st = "finished"
    /\ lc_threads' = <<>>
    /\ lc_pc' = [lc_pc EXCEPT ![c] = "stop341"]
    /\ UNCHANGED <<lc_isRunning, lc_stopRequested, lc_paths, lc_proc, lc_pm,
                   lc_arg, lc_calls, lc_aborted, lc_removed, lc_last, lc_push>>

\* Stop, lines 341-357: the processor is notified and joined when
\* joinable, then the process monitor; Stop returns.
LStopJoinOthers(c) ==
    /\ ~lc_aborted
    /\ lc_pc[c] = "stop341"
    /\ lc_proc # "alive"
    /\ lc_pm # "alive"
    /\ lc_proc' = "none"
    /\ lc_pm' = "none"
    /\ lc_last' = [NoLifeCall EXCEPT
                      !.op = "Stop", !.wasRunning = TRUE,
                      !.live = LiveThread(lc_threads, "none", "none"),
                      !.unjoined = UnjoinedThread(lc_threads, "none", "none")]
    /\ lc_pc' = [lc_pc EXCEPT ![c] = "idle"]
    /\ UNCHANGED <<lc_isRunning, lc_stopRequested, lc_paths, lc_threads,
                   lc_arg, lc_calls, lc_aborted, lc_removed, lc_push>>

\* AddWatchPath, lines 361-374: under m_pathsMutex the path is inserted
\* unless it is there already, and m_isRunning is read.
LAddWatchPathCheck(c, path) ==
    /\ ~lc_aborted
    /\ lc_pc[c] = "idle"
    /\ lc_calls < MaxLifeCalls
    /\ ~PathsMutexHeld
    /\ lc_calls' = lc_calls + 1
    /\ IF path \in lc_paths
       THEN /\ lc_last' = [NoLifeCall EXCEPT !.op = "Add"]
            /\ UNCHANGED <<lc_paths, lc_pc, lc_arg, lc_removed>>
       ELSE /\ lc_paths' = lc_paths \cup {path}
            /\ lc_removed' = lc_removed \ {path}
            /\ IF lc_isRunning
               THEN /\ lc_pc' = [lc_pc EXCEPT ![c] = "add374"]
                    /\ lc_arg' = [lc_arg EXCEPT ![c] = path]
                    /\ UNCHANGED lc_last
               ELSE /\ lc_last' = [NoLifeCall EXCEPT !.op = "Add", !.result = TRUE]
                    /\ UNCHANGED <<lc_pc, lc_arg>>
    /\ UNCHANGED <<lc_isRunning, lc_stopRequested, lc_threads, lc_proc, lc_pm,
                   lc_aborted, lc_push>>

\* AddWatchPath, lines 375-378: the monitor was running at line 374; a
\* watcher thread is added to m_monitorThreads.
LAddWatchPathThread(c) ==
    /\ ~lc_aborted
    /\ lc_pc[c] = "add374"
    /\ Len(lc_threads) < MaxLifeThreads
    /\ lc_threads' = Append(lc_threads, [path |-> lc_arg[c], st |-> "alive"])
    /\ lc_last' = [NoLifeCall EXCEPT !.op = "Add", !.result = TRUE,
                                     !.wasRunning = TRUE, !.created = TRUE]
    /\ lc_pc' = [lc_pc EXCEPT ![c] = "idle"]
    /\ lc_arg' = [lc_arg EXCEPT ![c] = ""]
    /\ UNCHANGED <<lc_isRunning, lc_stopRequested, lc_paths, lc_proc, lc_pm,
                   lc_calls, lc_aborted, lc_removed, lc_push>>

\* RemoveWatchPath, lines 381-385: the path is erased from
\* m_watchedPaths; nothing else is done.
LRemoveWatchPath(c, path) ==
    /\ ~lc_aborted
    /\ lc_pc[c] = "idle"
    /\ lc_calls < MaxLifeCalls
    /\ ~PathsMutexHeld
    /\ lc_calls' = lc_calls + 1
    /\ lc_paths' = lc_paths \ {path}
    /\ lc_removed' = IF path \in lc_paths /\ lc_isRunning
                     THEN lc_removed \cup {path} ELSE lc_removed
    /\ lc_last' = [NoLifeCall EXCEPT
                      !.op = "Remove", !.result = (path \in lc_paths),
                      !.wasRunning = lc_isRunning,
                      !.corresponds = (LivePaths(lc_threads) = lc_paths \ {path})]
    /\ UNCHANGED <<lc_isRunning, lc_stopRequested, lc_threads, lc_proc, lc_pm,
                   lc_pc, lc_arg, lc_aborted, lc_push>>

\* DirectoryMonitorThread, lines 448-466: a running watcher that has not
\* seen the stop flag queues an event for a file under its directory.
LWatcherPush(i) ==
    /\ ~lc_aborted
    /\ i \in 1..Len(lc_threads)
    /\ lc_threads[i].st = "alive"
    /\ ~lc_stopRequested
    /\ lc_push' = [pushed |-> TRUE, path |-> lc_threads[i].path,
                   removed |-> lc_threads[i].path \in lc_removed]
    /\ UNCHANGED <<lc_isRunning, lc_stopRequested, lc_paths, lc_threads,
                   lc_proc, lc_pm, lc_pc, lc_arg, lc_calls, lc_aborted,
                   lc_removed, lc_last>>

\* A thread finds m_stopRequested set at its loop test and ends: a
\* watcher (line 410), the event processor (485-495) or the process
\* monitor (647).
LThreadExit(who, i) ==
    /\ ~lc_aborted
    /\ lc_stopRequested
    /\ CASE who = "processor" ->
              /\ lc_proc = "alive"
              /\ lc_proc' = "finished"
              /\ UNCHANGED <<lc_threads, lc_pm>>
         [] who = "processMonitor" ->
              /\ lc_pm = "alive"
              /\ lc_pm' = "finished"
              /\ UNCHANGED <<lc_threads, lc_proc>>
         [] OTHER ->
              /\ i \in 1..Len(lc_threads)
              /\ lc_threads[i].st = "alive"
              /\ lc_threads' = [lc_threads EXCEPT ![i].st = "finished"]
              /\ UNCHANGED <<lc_proc, lc_pm>>
    /\ UNCHANGED <<lc_isRunning, lc_stopRequested, lc_paths, lc_pc, lc_arg,
                   lc_calls, lc_aborted, lc_removed, lc_last, lc_push>>

(* ================================================================== *)
(*  Part 12.  Starting and stopping a ScanEngine scan                  *)
(*            (Core/ScanEngine.cpp, StartQuickScan, StartFullScan,     *)
(*            StartCustomScan, StopScan, ScanDirectory)                *)
(* ================================================================== *)

\* number of scan threads, of files one scan finds, and of Start*Scan
\* and StopScan calls in one run
MaxScanThreads == 2
MaxScanFiles == 2
MaxScanStarts == 3
MaxStopCalls == 2

ScanKinds == {"quick", "full", "custom"}

ScanThreads == 1..MaxScanThreads

VARIABLES
    sc_isScanning,     \* m_isScanning
    sc_stopRequested,  \* m_stopRequested
    sc_pc,             \* per scan thread: "none", "created", "scanning", "done"
    sc_left,           \* per scan thread: files it has still to look at
    sc_progress,       \* m_progress: scannedFiles, isComplete
    sc_threats,        \* number of entries of m_threats
    sc_starts,         \* Start*Scan calls so far
    sc_stops,          \* StopScan calls so far
    sc_stopAsked,      \* history, per thread: StopScan was called after the
                       \* Start*Scan call that created the thread had returned
    sc_late,           \* history: a thread took a new file after such a StopScan
    sc_reset           \* history: progress or threats of a scan in progress were reset

scvars == <<sc_isScanning, sc_stopRequested, sc_pc, sc_left, sc_progress,
            sc_threats, sc_starts, sc_stops, sc_stopAsked, sc_late, sc_reset>>

NoProgress == [scannedFiles |-> 0, isComplete |-> FALSE]

ScanInit ==
    /\ sc_isScanning = FALSE
    /\ sc_stopRequested = FALSE
    /\ sc_pc = [t \in ScanThreads |-> "none"]
    /\ sc_left = [t \in ScanThreads |-> 0]
    /\ sc_progress = NoProgress
    /\ sc_threats = 0
    /\ sc_starts = 0
    /\ sc_stops = 0
    /\ sc_stopAsked = [t \in ScanThreads |-> FALSE]
    /\ sc_late = FALSE
    /\ sc_reset = FALSE

\* The scan threads that were created and have not finished.
RunningScans == {t \in ScanThreads : sc_pc[t] \in {"created", "scanning"}}

\* Lines 106-108 and 142 (146-148, 169; 173-175, 198): the call returns
\* when m_isScanning is set; otherwise it creates the scan thread and
\* detaches it.  m_isScanning is set by the new thread, not here.
StartScan(kind, t) ==
    /\ sc_starts < MaxScanStarts
    /\ sc_starts' = sc_starts + 1
    /\ IF sc_isScanning
       THEN UNCHANGED <<sc_pc, sc_stopAsked>>
       ELSE /\ sc_pc[t] \in {"none", "done"}
            /\ \A u \in ScanThreads : u < t => sc_pc[u] \notin {"none", "done"}
            /\ sc_pc' = [sc_pc EXCEPT ![t] = "created"]
            /\ sc_stopAsked' = [sc_stopAsked EXCEPT ![t] = FALSE]
    /\ UNCHANGED <<sc_isScanning, sc_stopRequested, sc_left, sc_progress,
                   sc_threats, sc_stops, sc_late, sc_reset>>

\* Lines 109-112 (149-152, 176-179), then CollectFiles (206-207): the
\* thread sets m_isScanning, clears m_stopRequested, m_threats and
\* m_progress, and finds files files.
ScanThreadBegin(t, files) ==
    /\ sc_pc[t] = "created"
    /\ sc_isScanning' = TRUE
    /\ sc_stopRequested' = FALSE
    /\ sc_threats' = 0
    /\ sc_progress' = NoProgress
    /\ sc_reset' = (sc_reset \/ \E u \in ScanThreads : sc_pc[u] = "scanning")
    /\ sc_left' = [sc_left EXCEPT ![t] = files]
    /\ sc_pc' = [sc_pc EXCEPT ![t] = "scanning"]
    /\ UNCHANGED <<sc_starts, sc_stops, sc_stopAsked, sc_late>>

\* ScanDirectory, lines 214-243: the loop ends at the first test that
\* finds m_stopRequested set; otherwise the next file is scanned, counted
\* and, when it is a threat, added to m_threats.
ScanDirectoryStep(t, threat) ==
    /\ sc_pc[t] = "scanning"
    /\ sc_left[t] > 0
    /\ IF sc_stopRequested
       THEN /\ sc_left' = [sc_left EXCEPT ![t] = 0]
            /\ UNCHANGED <<sc_progress, sc_threats, sc_late>>
       ELSE /\ sc_left' = [sc_left EXCEPT ![t] = sc_left[t] - 1]
            /\ sc_progress' = [sc_progress EXCEPT
                                  !.scannedFiles = sc_progress.scannedFiles + 1]
            /\ sc_threats' = sc_threats + (IF threat THEN 1 ELSE 0)
            /\ sc_late' = (sc_late \/ sc_stopAsked[t])
    /\ UNCHANGED <<sc_isScanning, sc_stopRequested, sc_pc, sc_starts, sc_stops,
                   sc_stopAsked, sc_reset>>

\* Lines 138-140 (165-167, 194-196): isComplete, the last callback,
\* m_isScanning = false.
ScanThreadFinish(t) ==
    /\ sc_pc[t] = "scanning"
    /\ sc_left[t] = 0
    /\ sc_progress' = [sc_progress EXCEPT !.isComplete = TRUE]
    /\ sc_isScanning' = FALSE
    /\ sc_pc' = [sc_pc EXCEPT ![t] = "done"]
    /\ UNCHANGED <<sc_stopRequested, sc_left, sc_threats, sc_starts, sc_stops,
                   sc_stopAsked, sc_late, sc_reset>>

\* Lines 201-203.
StopScan ==
    /\ sc_stops < MaxStopCalls
    /\ sc_stops' = sc_stops + 1
    /\ sc_stopRequested' = TRUE
    /\ sc_stopAsked' = [t \in ScanThreads |-> sc_stopAsked[t] \/ t \in RunningScans]
    /\ UNCHANGED <<sc_isScanning, sc_pc, sc_left, sc_progress, sc_threats,
                   sc_starts, sc_late, sc_reset>>

(* ================================================================== *)
(*  Specifications                                                     *)
(* ================================================================== *)

\* The variables of Parts 9 and later.
yvars == <<excvars, pevars, lcvars, scvars>>

\* The variables of Parts 4 and later.
xvars == <<evars, fvars, svars, cqvars, tvars, yvars>>

vars == <<qvars, ivars, dvars, mvars, xvars>>

\* The event handler at rest.
EIdle ==
    /\ e_config = [autoQuarantine |-> FALSE, scanOnAccess |-> FALSE,
                   callback |-> FALSE]
    /\ e_stats = ZeroStats
    /\ e_pc = "idle"
    /\ e_event = NoEvent
    /\ e_action = "NONE"
    /\ e_scan = NoScan
    /\ e_trace = <<>>
    /\ e_base = ZeroStats
    /\ e_handled = MaxHandled
    /\ e_last = NoHandled

\* The feature extractor at rest.
FIdle ==
    /\ f_config = [vectorSize |-> 512, normalize |-> TRUE,
                   useStringFeatures |-> TRUE]
    /\ f_initialized = FALSE
    /\ f_calls = MaxExtractCalls
    /\ f_last = NoExtract

\* The scan engine at rest.
SIdle ==
    /\ m_signatures = EmptyMap
    /\ m_whitelist = {}
    /\ s_aiErrors = 0
    /\ s_loads = MaxLoads
    /\ s_calls = MaxScanCalls
    /\ s_last = NoScanCall

\* No concurrent quarantine calls.
CQIdle ==
    /\ cq_disk = {}
    /\ cq_qdir = {}
    /\ cq_entries = EmptyMap
    /\ cq_uuid = 0
    /\ cq_pc = [t \in CQThreads |-> "idle"]
    /\ cq_local = [t \in CQThreads |-> NoLocal]
    /\ cq_result = [t \in CQThreads |-> "none"]
    /\ cq_calls = MaxConcCalls

\* No IsMalicious calls.
TIdle ==
    /\ t_threshold = 750
    /\ t_calls = MaxVerdictCalls
    /\ t_last = NoVerdict

\* No exception-list activity.
ExcIdle ==
    /\ m_exceptions = {}
    /\ x_queue = <<>>
    /\ x_watcher = "running"
    /\ x_events = MaxExcEvents
    /\ x_calls = MaxExcCalls
    /\ x_last = NoExcHandled

\* No ParsePEAdvanced calls.
PEIdle ==
    /\ pe_calls = MaxParseCalls
    /\ pe_last = NoParse

\* No calls to Start, Stop, AddWatchPath or RemoveWatchPath.
LIdle ==
    /\ lc_isRunning = FALSE
    /\ lc_stopRequested = FALSE
    /\ lc_paths = {"w1"}
    /\ lc_threads = <<>>
    /\ lc_proc = "none"
    /\ lc_pm = "none"
    /\ lc_pc = [c \in Callers |-> "idle"]
    /\ lc_arg = [c \in Callers |-> ""]
    /\ lc_calls = MaxLifeCalls
    /\ lc_aborted = FALSE
    /\ lc_removed = {}
    /\ lc_last = NoLifeCall
    /\ lc_push = NoLifePush

\* No scan is started or stopped.
ScanIdle ==
    /\ sc_isScanning = FALSE
    /\ sc_stopRequested = FALSE
    /\ sc_pc = [t \in ScanThreads |-> "none"]
    /\ sc_left = [t \in ScanThreads |-> 0]
    /\ sc_progress = NoProgress
    /\ sc_threats = 0
    /\ sc_starts = MaxScanStarts
    /\ sc_stops = MaxStopCalls
    /\ sc_stopAsked = [t \in ScanThreads |-> FALSE]
    /\ sc_late = FALSE
    /\ sc_reset = FALSE

YIdle == ExcIdle /\ PEIdle /\ LIdle /\ ScanIdle

XIdle == EIdle /\ FIdle /\ SIdle /\ CQIdle /\ TIdle /\ YIdle

\* The components a specification does not exercise stay as constructed.
QIdle ==
    /\ QInit
    /\ q_config = [encryptFiles |-> TRUE, compressFiles |-> TRUE,
                   secureDeleteOriginal |-> FALSE]

IIdle ==
    /\ IInit
    /\ i_config = [encryptFiles |-> TRUE]

QNext ==
    \/ \E a \in AbsPaths, c \in UserContents :
         QWriteFile(a, c) /\ UNCHANGED <<ivars, dvars, mvars, xvars>>
    \/ \E n \in DOMAIN qdir :
         QTamper(n) /\ UNCHANGED <<ivars, dvars, mvars, xvars>>
    \/ \E p \in PathInputs, f \in QFaults :
         QuarantineFile(p, f) /\ UNCHANGED <<ivars, dvars, mvars, xvars>>
    \/ \E id \in (DOMAIN m_entries) \cup {UnknownId}, d \in DestInputs, f \in RFaults :
         RestoreFile(id, d, f) /\ UNCHANGED <<ivars, dvars, mvars, xvars>>
    \/ \E id \in (DOMAIN m_entries) \cup {UnknownId}, s \in BOOLEAN, f \in DFaults :
         DeletePermanently(id, s, f) /\ UNCHANGED <<ivars, dvars, mvars, xvars>>

INext ==
    \/ \E a \in AbsPaths, c \in Contents :
         IWriteFile(a, c) /\ UNCHANGED <<qvars, dvars, mvars, xvars>>
    \/ \E p \in PathInputs, sd \in Seeds, f \in IQFaults :
         ImplQuarantineFile(p, sd, f) /\ UNCHANGED <<qvars, dvars, mvars, xvars>>
    \/ ImplRecordEntry /\ UNCHANGED <<qvars, dvars, mvars, xvars>>
    \/ \E qp \in VaultPaths, f \in {"none", "rename"} :
         ImplRestoreFile(qp, f) /\ UNCHANGED <<qvars, dvars, mvars, xvars>>
    \/ \E qp \in VaultPaths, f \in {"none", "remove"} :
         ImplDeletePermanently(qp, f) /\ UNCHANGED <<qvars, dvars, mvars, xvars>>

DIdle ==
    /\ DInit
    /\ d_config = [useCaching |-> TRUE, cacheSize |-> MaxCacheSize, ensemble |-> FALSE]

DNext ==
    \/ \E t \in DThreads, v \in Vectors :
         DetectBegin(t, v) /\ UNCHANGED <<qvars, ivars, mvars, xvars>>
    \/ \E t \in DThreads, ok \in BOOLEAN, ms \in Durations, junk \in Scores :
         DetectInfer(t, ok, ms, junk) /\ UNCHANGED <<qvars, ivars, mvars, xvars>>
    \/ \E t \in DThreads :
         DetectUpdate(t) /\ UNCHANGED <<qvars, ivars, mvars, xvars>>

MIdle ==
    /\ MInit
    /\ mon_config = [maxQueueSize |-> MaxQueueSize, callback |-> FALSE]

\* Steps of the controlling thread inside Stop after the request.
StopStep ==
    \/ StopJoinWatchers
    \/ StopNotify
    \/ StopJoinProcessor
    \/ StopJoinProcessMonitor

\* Steps of a watcher thread.
WStep(w) ==
    \/ WCheck(w)
    \/ WTimeout(w)
    \/ \E t \in EventTypes, x \in ExceptionSets : WObserve(w, t, x)
    \/ WPush(w)
    \/ WBufferEnd(w)

\* Steps of the event processor other than a spurious wake-up.
PStep ==
    \/ PLoopCheck
    \/ PLock
    \/ PCheck495
    \/ PPop
    \/ PProcess
    \/ PCallback

Others == UNCHANGED <<qvars, ivars, dvars, xvars>>

MNext ==
    \/ Start /\ Others
    \/ StopRequest /\ Others
    \/ StopJoinWatchers /\ Others
    \/ StopNotify /\ Others
    \/ StopJoinProcessor /\ Others
    \/ StopJoinProcessMonitor /\ Others
    \/ \E w \in WatchedPaths : WCheck(w) /\ Others
    \/ \E w \in WatchedPaths : WFail(w) /\ Others
    \/ \E w \in WatchedPaths : WTimeout(w) /\ Others
    \/ \E w \in WatchedPaths, t \in EventTypes, x \in ExceptionSets :
         WObserve(w, t, x) /\ Others
    \/ \E w \in WatchedPaths : WPush(w) /\ Others
    \/ \E w \in WatchedPaths : WBufferEnd(w) /\ Others
    \/ PLoopCheck /\ Others
    \/ PLock /\ Others
    \/ PSpuriousWake /\ Others
    \/ PCheck495 /\ Others
    \/ PPop /\ Others
    \/ PProcess /\ Others
    \/ PCallback /\ Others
    \/ PMCheck /\ Others

\* Quarantine.cpp
InitQ == QInit /\ IIdle /\ DIdle /\ MIdle /\ XIdle

SpecQ == InitQ /\ [][QNext]_vars

\* Quarantine_impl.cpp
InitQI == IInit /\ QIdle /\ DIdle /\ MIdle /\ XIdle

SpecQI == InitQI /\ [][INext]_vars

\* AIDetector.cpp: Detect and its cache
InitCache == DInit /\ QIdle /\ IIdle /\ MIdle /\ XIdle

SpecCache == InitCache /\ [][DNext]_vars

\* RealTimeMonitor.cpp: Start, Stop and the three kinds of thread
InitMon == MInit /\ QIdle /\ IIdle /\ DIdle /\ XIdle

SpecMon == InitMon /\ [][MNext]_vars

\* The same under fair scheduling: every thread that can take a step
\* eventually does.  A spurious wake-up is never required to happen.
SpecMonFair ==
    /\ InitMon
    /\ [][MNext]_vars
    /\ WF_vars(StopStep /\ Others)
    /\ \A w \in WatchedPaths : WF_vars(WStep(w) /\ Others)
    /\ WF_vars(PStep /\ Others)
    /\ WF_vars(PMCheck /\ Others)

\* ---- Handling of one event by the processor thread ----
ENext ==
    \/ \E type \in MonitorEventTypes, path \in EventPaths :
           EDequeue(type, path) /\ UNCHANGED <<qvars, ivars, dvars, mvars, fvars, svars, cqvars, tvars, yvars>>
    \/ \E cond \in FileConds, level \in ThreatLevels :
           EProcess(cond, level) /\ UNCHANGED <<qvars, ivars, dvars, mvars, fvars, svars, cqvars, tvars, yvars>>
    \/ ECallback /\ UNCHANGED <<qvars, ivars, dvars, mvars, fvars, svars, cqvars, tvars, yvars>>
    \/ ERespond /\ UNCHANGED <<qvars, ivars, dvars, mvars, fvars, svars, cqvars, tvars, yvars>>

InitEvent ==
    EInit /\ QIdle /\ IIdle /\ DIdle /\ MIdle /\ FIdle /\ SIdle /\ CQIdle /\ TIdle /\ YIdle

SpecEvent == InitEvent /\ [][ENext]_vars

\* ---- Feature extraction, both implementations ----
FOthers == UNCHANGED <<qvars, ivars, dvars, mvars, evars, svars, cqvars, tvars, yvars>>

FNext ==
    \/ \E file \in ExtractFiles, crash \in BOOLEAN :
           FExtractFromFile(file, crash) /\ FOthers
    \/ \E buffer \in ExtractBuffers, type \in FeatureTypes, crash \in BOOLEAN :
           FExtractFromMemory(buffer, type, crash) /\ FOthers
    \/ \E crash \in BOOLEAN : FExtractFromBehavior(crash) /\ FOthers
    \/ \E file \in ExtractFiles : FImplExtractFromFile(file) /\ FOthers
    \/ \E buffer \in ExtractBuffers : FImplExtractFromMemory(buffer) /\ FOthers

InitExtract ==
    FInit /\ QIdle /\ IIdle /\ DIdle /\ MIdle /\ EIdle /\ SIdle /\ CQIdle /\ TIdle /\ YIdle

SpecExtract == InitExtract /\ [][FNext]_vars

\* ---- ScanEngine: table loads, then ScanFile ----
SOthers == UNCHANGED <<qvars, ivars, dvars, mvars, evars, fvars, cqvars, tvars, yvars>>

SNext ==
    \/ \E lines \in SignatureFiles : SLoadSignatures(lines) /\ SOthers
    \/ \E hashes \in WhitelistFiles : SLoadWhitelist(hashes) /\ SOthers
    \/ \E file \in ScanFiles, ai \in AIOutcomes : SScanFile(file, ai) /\ SOthers

InitScan ==
    SInit /\ QIdle /\ IIdle /\ DIdle /\ MIdle /\ EIdle /\ FIdle /\ CQIdle /\ TIdle /\ YIdle

SpecScan == InitScan /\ [][SNext]_vars

\* ---- QuarantineFile called by two threads ----
CQOthers == UNCHANGED <<qvars, ivars, dvars, mvars, evars, fvars, svars, tvars, yvars>>

CQNext ==
    \/ \E a \in AbsPaths : CQWriteFile(a) /\ CQOthers
    \/ \E t \in CQThreads, filePath \in AbsPaths :
           CQCheck(t, filePath) /\ CQOthers
    \/ \E t \in CQThreads : CQSize(t) /\ CQOthers
    \/ \E t \in CQThreads : CQCopy(t) /\ CQOthers
    \/ \E t \in CQThreads : CQInsert(t) /\ CQOthers
    \/ \E t \in CQThreads : CQDelete(t) /\ CQOthers

InitQConc ==
    CQInit /\ QIdle /\ IIdle /\ DIdle /\ MIdle /\ EIdle /\ FIdle /\ SIdle /\ TIdle /\ YIdle

SpecQConc == InitQConc /\ [][CQNext]_vars

TOthers == UNCHANGED <<qvars, ivars, dvars, mvars, evars, fvars, svars, cqvars, yvars>>

TNext ==
    \/ \E th \in Thresholds : TSetThreshold(th) /\ TOthers
    \/ \E out \in ModelOutputs : TIsMalicious(out) /\ TOthers
    \/ \E out \in ModelOutputs : TImplIsMalicious(out) /\ TOthers

InitVerdict ==
    TInit /\ QIdle /\ IIdle /\ DIdle /\ MIdle /\ EIdle /\ FIdle /\ SIdle /\ CQIdle /\ YIdle

SpecVerdict == InitVerdict /\ [][TNext]_vars

\* ---- The exception list ----
\* The variables of Parts 1 to 8.
oldvars == <<qvars, ivars, dvars, mvars, evars, fvars, svars, cqvars, tvars>>

OldIdle ==
    QIdle /\ IIdle /\ DIdle /\ MIdle /\ EIdle /\ FIdle /\ SIdle /\ CQIdle /\ TIdle

ExcOthers == UNCHANGED <<oldvars, pevars, lcvars, scvars>>

ExcNext ==
    \/ \E path \in ExceptionPaths : AddException(path) /\ ExcOthers
    \/ \E path \in ExceptionPaths : RemoveException(path) /\ ExcOthers
    \/ \E w \in WatchedPaths : XObserve(w) /\ ExcOthers
    \/ XProcess /\ ExcOthers

InitExceptions == XInit /\ OldIdle /\ PEIdle /\ LIdle /\ ScanIdle

SpecExceptions == InitExceptions /\ [][ExcNext]_vars

\* ---- Structural parsing ----
PEOthers == UNCHANGED <<oldvars, excvars, lcvars, scvars>>

PENext ==
    \E size \in BufferSizes, magic \in BOOLEAN, e \in LfanewValues,
       signature \in BOOLEAN, n \in SectionCounts,
       optSize \in OptionalHeaderSizes, fault \in BOOLEAN :
        PEParse(size, magic, e, signature, n, optSize, fault) /\ PEOthers

InitParse == PEInit /\ OldIdle /\ ExcIdle /\ LIdle /\ ScanIdle

SpecParse == InitParse /\ [][PENext]_vars

\* ---- Start, Stop, AddWatchPath, RemoveWatchPath from two threads ----
LOthers == UNCHANGED <<oldvars, excvars, pevars, scvars>>

LNext ==
    \/ \E c \in Callers : LStartEnter(c) /\ LOthers
    \/ \E c \in Callers : LStartThreads(c) /\ LOthers
    \/ \E c \in Callers : LStopEnter(c) /\ LOthers
    \/ \E c \in Callers : LStopRequest(c) /\ LOthers
    \/ \E c \in Callers : LStopJoinWatchers(c) /\ LOthers
    \/ \E c \in Callers : LStopJoinOthers(c) /\ LOthers
    \/ \E c \in Callers, path \in LifePaths : LAddWatchPathCheck(c, path) /\ LOthers
    \/ \E c \in Callers : LAddWatchPathThread(c) /\ LOthers
    \/ \E c \in Callers, path \in LifePaths : LRemoveWatchPath(c, path) /\ LOthers
    \/ \E i \in 1..MaxLifeThreads : LWatcherPush(i) /\ LOthers
    \/ \E who \in {"watcher", "processor", "processMonitor"},
          i \in 1..MaxLifeThreads : LThreadExit(who, i) /\ LOthers

InitLife == LInit /\ OldIdle /\ ExcIdle /\ PEIdle /\ ScanIdle

SpecLife == InitLife /\ [][LNext]_vars

\* ---- Starting and stopping a scan ----
ScanOthers == UNCHANGED <<oldvars, excvars, pevars, lcvars>>

ScanNext ==
    \/ \E kind \in ScanKinds, t \in ScanThreads : StartScan(kind, t) /\ ScanOthers
    \/ \E t \in ScanThreads, files \in 0..MaxScanFiles :
           ScanThreadBegin(t, files) /\ ScanOthers
    \/ \E t \in ScanThreads, threat \in BOOLEAN :
           ScanDirectoryStep(t, threat) /\ ScanOthers
    \/ \E t \in ScanThreads : ScanThreadFinish(t) /\ ScanOthers
    \/ StopScan /\ ScanOthers

InitScanControl == ScanInit /\ OldIdle /\ ExcIdle /\ PEIdle /\ LIdle

SpecScanControl == InitScanControl /\ [][ScanNext]_vars

(* ================================================================== *)
(*  Claims                                                             *)
(* ================================================================== *)

(* ------------------------------------------------------------------ *)
(* Claims about QuarantineManager                                      *)
(* ------------------------------------------------------------------ *)

\* C1: in every reachable state a record is in m_entries if and only if
\* its quarantine artifact exists on disk at the record's quarantinePath
\* (every record has its artifact, and every artifact has its record).
C1_IndexIffArtifact ==
    /\ \A id \in DOMAIN m_entries :
          QName(m_entries[id].quarantinePath, "") \in DOMAIN qdir
    /\ \A n \in DOMAIN qdir :
          n[2] = "" => \E id \in DOMAIN m_entries : m_entries[id].quarantinePath = n[1]

\* C2: a QuarantineFile call on a path that resolves to an absolute path
\* with an active record (quarantined with SUCCESS, no RestoreFile or
\* DeletePermanently since) returns ALREADY_QUARANTINED and leaves exactly
\* one record for that path.
C2_DuplicateRejected ==
    (q_last.op = "Quarantine" /\ q_last.wasActive)
        => (q_last.result = "ALREADY_QUARANTINED" /\ q_last.recordsFor = 1)

\* C4: when RestoreFile recovers content that differs from the content
\* captured at isolate time it returns an error and the artifact and the
\* record are as they were before the call.
C4_MismatchLeavesArtifact ==
    (q_last.op = "Restore" /\ q_last.differs)
        => (q_last.result \in {"UNKNOWN_ERROR", "ENCRYPTION_FAILED"} /\ q_last.intact)


\* C3: quarantine round trip.  After a successful QuarantineFile(p) the
\* path p holds no file, and after a successful RestoreFile the original
\* path holds a file whose content equals the content that was isolated.
C3_RoundTrip ==
    /\ (i_last.op = "Quarantine" /\ i_last.result = "SUCCESS") => i_last.originalGone
    /\ (i_last.op = "Restore" /\ i_last.result = "SUCCESS") => i_last.roundTrip

\* C5: with caching enabled, whatever Detect calls have run (overlapping
\* calls of several threads included), the cache never holds more than
\* cacheSize entries, its order list names exactly the cached keys, and
\* once more than cacheSize distinct keys have been inserted it holds
\* exactly cacheSize entries.
C5_CacheBounded ==
    d_config.useCaching =>
        /\ Cardinality(DOMAIN m_cache) <= d_config.cacheSize
        /\ Len(m_cacheOrder) = Cardinality(DOMAIN m_cache)
        /\ {m_cacheOrder[k] : k \in 1..Len(m_cacheOrder)} = DOMAIN m_cache
        /\ Cardinality(d_inserted) > d_config.cacheSize
              => Cardinality(DOMAIN m_cache) = d_config.cacheSize

\* Overlapping calls have inserted cacheSize + 1 distinct keys into a
\* cache of two entries, and the cache holds two.
C5_Witness ==
    /\ d_config.useCaching
    /\ d_config.cacheSize = 2
    /\ Cardinality(d_inserted) = 3
    /\ Cardinality(DOMAIN m_cache) = 2
    /\ d_prev.exists /\ ~d_prev.solo

\* C6 as stated: with caching enabled, two consecutive Detect(v) calls on
\* an accepted vector return identical results, and the second call adds
\* one to cacheHits and nothing to totalInferences.
C6_SecondCallHits ==
    (/\ d_config.useCaching
     /\ d_pair.exists
     /\ d_pair.v1 = d_pair.v2
     /\ ValidateInputShape(d_pair.v1))
    => (/\ d_pair.r1 = d_pair.r2
        /\ d_pair.dHits = 1
        /\ d_pair.dInf = 0)

\* C6 amended: with caching enabled and cacheSize at least 1, when the
\* first of two consecutive Detect(v) calls on an accepted vector returned
\* a valid result, the second returns an identical result, adds one to
\* cacheHits and nothing to totalInferences.
C6_SecondCallHitsWhenCached ==
    (/\ d_config.useCaching
     /\ d_config.cacheSize >= 1
     /\ d_pair.exists
     /\ d_pair.v1 = d_pair.v2
     /\ ValidateInputShape(d_pair.v1)
     /\ d_pair.r1.isValid)
    => (/\ d_pair.r1 = d_pair.r2
        /\ d_pair.dHits = 1
        /\ d_pair.dInf = 0)

\* A second Detect(v) has just returned the result the first one computed
\* (a model run that took a millisecond) from the cache.
C6_Witness ==
    /\ d_config.useCaching
    /\ d_config.cacheSize >= 1
    /\ d_pair.exists
    /\ d_pair.v1 = d_pair.v2
    /\ ValidateInputShape(d_pair.v1)
    /\ d_pair.r1.isValid
    /\ d_pair.r1.inferenceTimeMs = 1
    /\ d_pair.r2 = d_pair.r1
    /\ d_pair.dHits = 1
    /\ d_pair.dInf = 0

\* C7: the event queue never holds more than maxQueueSize events; a
\* watcher that finds the queue full drops its event, leaves the queued
\* events as they are and goes on to its next notification.
C7_QueueBounded ==
    /\ Len(m_queue) <= mon_config.maxQueueSize
    /\ (push_last.attempted /\ push_last.full)
          => (/\ ~push_last.accepted
              /\ push_last.unchanged
              /\ push_last.next = "next469")

\* A watcher has just found a queue of one event full and dropped its own.
C7_Witness ==
    /\ mon_config.maxQueueSize = 1
    /\ push_last.attempted /\ push_last.full /\ ~push_last.accepted
    /\ Len(m_queue) = 1
    /\ evCounter = 2
    /\ Len(pushed) = 1

\* s is an initial part of t.
IsPrefix(s, t) == Len(s) <= Len(t) /\ s = SubSeq(t, 1, Len(s))

\* C8: events are decided (ProcessEvent) and reported (callback) in the
\* order in which they entered the queue, whichever watchers pushed
\* them: the decided events are an initial part of the accepted ones,
\* the reported events an initial part of the decided ones, and what is
\* accepted but not yet decided is the processor's event and the queue.
C8_ArrivalOrder ==
    /\ IsPrefix(handled, pushed)
    /\ IsPrefix(calledBack, handled)
    /\ mon_config.callback =>
          Len(calledBack) = Len(handled) - (IF p_pc = "callback508" THEN 1 ELSE 0)
    /\ pushed = handled \o (IF p_pc = "process505" THEN <<p_event>> ELSE <<>>) \o m_queue

\* Two events pushed by different watchers, the later notification first,
\* have waited in the queue together and have both been decided and
\* reported in push order.
C8_Witness ==
    /\ mon_config.callback
    /\ Len(pushed) = 2
    /\ pushed[1].path # pushed[2].path
    /\ pushed[1].id > pushed[2].id
    /\ q_peak = 2
    /\ handled = pushed
    /\ calledBack = pushed

\* C9 as stated: once m_stopRequested is set the processor starts
\* ProcessEvent for no further event.
C9_NothingStartsAfterStop == p_lateStarts = 0

\* C9 amended: after m_stopRequested is set the processor starts
\* ProcessEvent for at most one further event, and only for one for which
\* it had passed its shutdown check (line 495) before the flag was set;
\* after that event it takes nothing more from the queue and exits.
C9_AtMostTheRacingEvent ==
    /\ p_lateStarts <= 1
    /\ p_lateRaced
    /\ p_lateStarts = 1 => p_pc \in {"callback508", "check485", "done", "none"}

\* Stop has returned after a run in which one event went through
\* ProcessEvent after the request.
C9_Witness ==
    /\ p_lateStarts = 1
    /\ stop_ctx.called
    /\ c_pc = "idle"
    /\ p_pc = "none"

\* C10: under fair scheduling, whenever Stop has requested shutdown it
\* eventually returns with every watcher thread, the event processor and
\* the process monitor joined.
C10_StopReturns ==
    (c_pc = "join333")
        ~> (/\ c_pc = "idle"
            /\ ~m_isRunning
            /\ \A w \in WatchedPaths : w_pc[w] = "none"
            /\ p_pc = "none"
            /\ pm_pc = "none")

\* Stop has returned after being called while the processor was blocked on
\* the empty queue and a watcher was in its bounded wait.
C10_Witness ==
    /\ stop_ctx.called
    /\ stop_ctx.processor = "waiting"
    /\ stop_ctx.watcherWaiting
    /\ c_pc = "idle"
    /\ ~m_isRunning
    /\ p_pc = "none"
    /\ \A w \in WatchedPaths : w_pc[w] = "none"

(* ------------------------------------------------------------------ *)
(* Claims about the handling of one monitor event                      *)
(* ------------------------------------------------------------------ *)

\* C11: whenever ScanAndDecide has run on a file that cannot be opened or
\* read (gone, or locked by another process), the action is ALLOW,
\* scanErrors went up by exactly one for that event, and threatsBlocked
\* and filesQuarantined did not go up.
C11_UnreadableCountsAsError ==
    (e_last.scan.scanned /\ e_last.scan.cond \in {"missing", "locked"}) =>
        /\ e_last.action = "ALLOW"
        /\ e_last.dErrors = 1
        /\ e_last.dBlocked = 0
        /\ e_last.dQuarantined = 0

\* C12: for every scanned event the action follows the verdict level of
\* the file: SAFE or LOW gives ALLOW, MEDIUM gives BLOCK, HIGH or CRITICAL
\* gives QUARANTINE when autoQuarantine is on and BLOCK otherwise.
C12_ActionFollowsLevel ==
    (e_last.scan.scanned /\ e_last.scan.cond = "readable") =>
        e_last.action =
            CASE e_last.scan.level \in {"SAFE", "LOW"} -> "ALLOW"
              [] e_last.scan.level = "MEDIUM" -> "BLOCK"
              [] OTHER -> IF e_config.autoQuarantine THEN "QUARANTINE"
                          ELSE "BLOCK"

\* C13: for every event handled while a callback is registered, the
\* callback is invoked exactly once, with that event and the decided
\* action (ALLOW included), and it has been invoked when the processor
\* reaches ExecuteResponse: it is the first thing done for the event.
C13_CallbackOnceBeforeResponse ==
    /\ (e_pc = "respond516" /\ e_config.callback) =>
           e_trace = <<[step |-> "callback", event |-> e_event.id,
                        action |-> e_action]>>
    /\ (e_last.id # 0 /\ e_config.callback) =>
           /\ Cardinality({i \in DOMAIN e_last.trace :
                               e_last.trace[i].step = "callback"}) = 1
           /\ e_last.trace[1] = [step |-> "callback", event |-> e_last.id,
                                 action |-> e_last.action]

\* An event was handled with a callback registered, the action was ALLOW
\* and the callback was the one thing done for it.
C13_Witness ==
    /\ e_config.callback
    /\ e_last.id # 0
    /\ e_last.action = "ALLOW"
    /\ e_last.scan.scanned
    /\ e_last.trace = <<[step |-> "callback", event |-> e_last.id,
                         action |-> "ALLOW"]>>

(* ------------------------------------------------------------------ *)
(* Claims about FeatureExtractor                                       *)
(* ------------------------------------------------------------------ *)

\* C14: for every input and every configured vectorSize, a call of
\* ExtractFromFile, ExtractFromMemory or ExtractFromBehavior that returns
\* gives either isValid = false or a vector of exactly vectorSize elements.
C14_ValidVectorHasVectorSize ==
    (f_last.entry # "none" /\ f_last.result.returned) =>
        \/ ~f_last.result.isValid
        \/ f_last.result.size = f_config.vectorSize

(* ------------------------------------------------------------------ *)
(* Claims about ScanEngine::ScanFile                                   *)
(* ------------------------------------------------------------------ *)

\* C15: when the model inference fails with a caught runtime exception,
\* the scan still returns a verdict, its score and level are those of the
\* heuristic stage alone, and the failure is counted in the error
\* statistic.
C15_InferenceFailureHeuristicOnly ==
    (s_last.called /\ "ai" \in s_last.out.stages
                   /\ s_last.ai.kind = "ort_exception") =>
        /\ s_last.out.result.confidence = s_last.file.heuristic
        /\ s_last.out.result.level = LevelOfScore(s_last.file.heuristic)
        /\ s_last.out.aiErrors = 1
        /\ s_aiErrors >= 1

\* C16: for every file whose fingerprint is in the whitelist, ScanFile
\* returns level SAFE with confidence 0, whatever the signature table
\* holds for that fingerprint, and runs neither the signature nor the
\* heuristic nor the model stage.
C16_WhitelistedIsSafe ==
    (s_last.called /\ s_last.out.result.sha256Hash # ""
                   /\ s_last.out.result.sha256Hash \in m_whitelist) =>
        /\ s_last.out.result.level = ThreatLevelValue.SAFE
        /\ s_last.out.result.confidence = 0
        /\ s_last.out.stages \cap {"signature", "heuristic", "ai"} = {}

\* A whitelisted file whose fingerprint is also in the signature table
\* was scanned.
C16_Witness ==
    /\ s_last.called
    /\ s_last.out.result.sha256Hash \in m_whitelist
    /\ s_last.out.result.sha256Hash \in DOMAIN m_signatures
    /\ m_signatures[s_last.out.result.sha256Hash].severity = 4
    /\ s_last.out.result.level = ThreatLevelValue.SAFE

\* C17: for every file that is not whitelisted and whose fingerprint has
\* an entry (name, severity) in the signature table, ScanFile returns a
\* level equal to that severity and a member of the enum SAFE..CRITICAL,
\* confidence 1.0 and method SIGNATURE, and runs neither the heuristic
\* nor the model stage.
C17_SignatureMatchGivesSeverity ==
    (s_last.called /\ s_last.out.result.sha256Hash # ""
                   /\ s_last.out.result.sha256Hash \notin m_whitelist
                   /\ s_last.out.result.sha256Hash \in DOMAIN m_signatures) =>
        /\ s_last.out.result.level =
               m_signatures[s_last.out.result.sha256Hash].severity
        /\ s_last.out.result.level \in ThreatLevelValues
        /\ s_last.out.result.confidence = 1000
        /\ s_last.out.result.method = "SIGNATURE"
        /\ s_last.out.stages \cap {"heuristic", "ai"} = {}

\* C18: on the combined path the level is the step function of the final
\* score: >= 0.85 CRITICAL, [0.70, 0.85) HIGH, [0.50, 0.70) MEDIUM,
\* [0.30, 0.50) LOW, below 0.30 SAFE.
C18_LevelIsStepFunctionOfFinal ==
    (s_last.called /\ "heuristic" \in s_last.out.stages) =>
        LET final == s_last.out.scores.final
            level == s_last.out.result.level
        IN  /\ s_last.out.result.confidence = final
            /\ (final >= 850) <=> (level = ThreatLevelValue.CRITICAL)
            /\ (final >= 700 /\ final < 850) <=> (level = ThreatLevelValue.HIGH)
            /\ (final >= 500 /\ final < 700) <=> (level = ThreatLevelValue.MEDIUM)
            /\ (final >= 300 /\ final < 500) <=> (level = ThreatLevelValue.LOW)
            /\ (final < 300) <=> (level = ThreatLevelValue.SAFE)

\* A scan on the combined path ended exactly on the HIGH threshold, with
\* both stages contributing.
C18_Witness ==
    /\ s_last.called
    /\ "ai" \in s_last.out.stages
    /\ s_last.out.scores.heuristic > 0
    /\ s_last.out.scores.ai > 0
    /\ s_last.out.scores.final = 700
    /\ s_last.out.result.level = ThreatLevelValue.HIGH

(* ------------------------------------------------------------------ *)
(* Claims about concurrent callers                                     *)
(* ------------------------------------------------------------------ *)

\* C19: at most one inference call on the shared session is in flight
\* at any time: the scan thread and the monitor thread are never both
\* inside RunInference.
C19_AtMostOneInference ==
    Cardinality({t \in DThreads : d_pc[t] = "infer"}) <= 1

\* C20: under any interleaving of QuarantineFile calls made by different
\* threads for the same original path, the index never holds two records
\* with the same original path.
C20_OneRecordPerOriginalPath ==
    \A a \in AbsPaths : RecordsFor(cq_entries, a) <= 1

C22_DeleteFailureReportedSeparately ==
    (q_last.op = "Quarantine" /\ q_last.failed = "remove")
        => /\ q_last.recordLeft
           /\ q_last.artLeft
           /\ q_last.result \notin {"SUCCESS", "UNKNOWN_ERROR"}

\* C23: after RestoreFile returns SUCCESS the record is no longer in the
\* index, the quarantine artifact no longer exists, and a file that was at
\* the destination before the call is unchanged.
C23_RestoreRemovesRecordAndArtifact ==
    (i_last.op = "Restore" /\ i_last.result = "SUCCESS")
        => /\ ~i_last.recordLeft
           /\ ~i_last.artLeft
           /\ i_last.destKept

\* C24: DeletePermanently removes the record after the artifact has been
\* overwritten (when secure) and unlinked: a call that returns SUCCESS leaves
\* neither record nor artifact, a call whose overwrite or unlink failed
\* leaves the record in the index, and a call whose overwrite and unlink
\* went through removes the record.
C24_RecordRemovedAfterArtifact ==
    (q_last.op = "Delete" /\ q_last.result # "FILE_NOT_FOUND")
        => /\ (q_last.result = "SUCCESS" => (~q_last.recordLeft /\ ~q_last.artLeft))
           /\ (q_last.failed = "remove" => q_last.recordLeft)
           /\ (q_last.failed = "none" => ~q_last.recordLeft)

\* C25: every event accepted into the queue is consumed exactly once by the
\* event processor: no event is given to ProcessEvent twice, and once Stop
\* has returned every accepted event has been processed, none being left
\* in the queue.
C25_ConsumedExactlyOnce ==
    /\ \A i, j \in 1..Len(handled) : handled[i].id = handled[j].id => i = j
    /\ (stop_ctx.called /\ c_pc = "idle" /\ p_pc = "none")
          => (m_queue = <<>> /\ handled = pushed)

\* C26: when a scan cannot be carried out (the file cannot be hashed or
\* read, or no features can be extracted from it), the returned result is
\* SAFE and carries a non-empty error message, which the indicator list of
\* a completed scan is not.
C26_FailedScanCarriesError ==
    (s_last.called /\ (\/ s_last.out.stages = {"hash"}
                       \/ ("heuristic" \in s_last.out.stages /\ ~s_last.file.features)))
        => /\ s_last.out.result.level = ThreatLevelValue.SAFE
           /\ s_last.out.result.details \notin {"", "Indicators"}

\* C27: IsMalicious returns true exactly when the result is valid and the
\* malicious score is greater than or equal to detectionThreshold (a score
\* equal to the threshold counts as malicious).
C27_MaliciousIffScoreAtLeastThreshold ==
    t_last.called
        => (t_last.returned
               <=> (t_last.isValid /\ t_last.maliciousScore >= t_last.threshold))

\* C28: in every execution of QuarantineFile the original is deleted only
\* after the artifact has been written and the record is in the index: a
\* call that has removed the original has its record in the index.
C28_OriginalDeletedAfterRecord ==
    \A k \in 1..Len(i_pending) :
        \E j \in 1..Len(i_entries) : i_entries[j] = i_pending[k].entry

C30_SkippedModelGivesHeuristic ==
    (s_last.called /\ "heuristic" \in s_last.out.stages) =>
        LET produced == /\ "ai" \in s_last.out.stages
                        /\ s_last.ai.kind = "ok"
            h == s_last.out.scores.heuristic
        IN  /\ h = s_last.file.heuristic
            /\ s_last.out.scores.final =
                  (IF produced THEN (4 * h + 6 * s_last.ai.score) \div 10 ELSE h)

\* C31: ProcessEvent classifies every event: a Deleted or non-file event is
\* allowed without scanning; a Created, Modified or Renamed event with a
\* dangerous extension is scanned whatever scanOnAccess is; such an event
\* with another extension is scanned only when scanOnAccess is on and is
\* otherwise allowed without scanning.
C31_ClassificationByTypeAndExtension ==
    e_last.id # 0 =>
        LET fileEvent == e_last.type \in {"FILE_CREATED", "FILE_MODIFIED",
                                           "FILE_RENAMED"}
            dangerous == e_last.path = "C:\\w1\\a.exe"
        IN  /\ ~fileEvent => (~e_last.scan.scanned /\ e_last.action = "ALLOW")
            /\ (fileEvent /\ dangerous) => e_last.scan.scanned
            /\ (fileEvent /\ ~dangerous) =>
                   (e_last.scan.scanned <=> e_config.scanOnAccess)
            /\ ~e_last.scan.scanned => e_last.action = "ALLOW"

\* A renamed text file was scanned because scanOnAccess is on.
C31_Witness ==
    /\ e_last.id # 0
    /\ e_last.type = "FILE_RENAMED"
    /\ e_last.path = "C:\\w1\\b.txt"
    /\ e_config.scanOnAccess
    /\ e_last.scan.scanned

(* ------------------------------------------------------------------ *)
(* Claims about the exception list and the monitor's threads           *)
(* ------------------------------------------------------------------ *)

\* C32: no event whose path, or an ancestor directory of whose path, is
\* in the exception set is given to ProcessEvent or to the callback;
\* this covers the events that were waiting in the queue when
\* AddException returned.
C32_ExceptedNeverHandled == x_last.handled => ~x_last.covered

\* C33: two records held at the same time for different original files
\* name different storage paths, also when the two files have the same
\* file name in different directories, and every record's artifact holds
\* the content that was isolated for that record.
C33_DistinctStoragePaths ==
    \A j, k \in 1..Len(i_entries) :
        Absolute(i_entries[j].originalPath) # Absolute(i_entries[k].originalPath)
            => i_entries[j].quarantinePath # i_entries[k].quarantinePath

(* ------------------------------------------------------------------ *)
(* Claims about structural parsing                                     *)
(* ------------------------------------------------------------------ *)

\* C34: whatever the buffer length, e_lfanew and NumberOfSections,
\* structural parsing reads only offsets from 0 up to size, and the call
\* ends with a result (with or without structural features).
C34_ReadsInsideBuffer ==
    pe_last.called =>
        /\ 0 <= pe_last.lo
        /\ pe_last.hi <= pe_last.size
        /\ pe_last.result # "fault"

(* ------------------------------------------------------------------ *)
(* Further claims about QuarantineManager                              *)
(* ------------------------------------------------------------------ *)

\* C35: a RestoreFile or DeletePermanently call for an id that is in the
\* index returns: it does not end blocked for ever on m_entriesMutex.
C35_RestoreAndDeleteReturn ==
    (q_last.op \in {"Restore", "Delete"} /\ q_last.id \in DOMAIN m_entries)
        => q_last.result # "NO_RETURN"

(* ------------------------------------------------------------------ *)
(* Claims about starting and stopping the monitor                      *)
(* ------------------------------------------------------------------ *)

\* C36: under every interleaving of Start, Stop and AddWatchPath,
\* IsRunning() is false only when no watcher, processor or process
\* monitor thread is alive; a Start on a running monitor returns false
\* and creates no thread; and when a Stop that found the monitor running
\* returns there is no live monitor thread and no joinable thread object.
C36_LifecycleConsistent ==
    /\ ~lc_isRunning => ~LiveThread(lc_threads, lc_proc, lc_pm)
    /\ (lc_last.op = "Start" /\ lc_last.wasRunning)
          => (~lc_last.result /\ ~lc_last.created)
    /\ lc_last.op = "Stop" => (~lc_last.live /\ ~lc_last.unjoined)

\* C37: after RemoveWatchPath(p) has returned true on a running monitor
\* no event for a file under p is pushed any more, and the running
\* watcher threads are those of the watched paths.
C37_RemovedPathIsQuiet ==
    /\ lc_push.pushed => ~lc_push.removed
    /\ (lc_last.op = "Remove" /\ lc_last.result /\ lc_last.wasRunning)
          => lc_last.corresponds

(* ------------------------------------------------------------------ *)
(* Claims about starting and stopping a scan                           *)
(* ------------------------------------------------------------------ *)

\* C38: at most one scan thread is running at any time, and the progress
\* and the threat list of a scan in progress are never reset by a later
\* Start*Scan call.
C38_OneScanAtATime ==
    /\ Cardinality(RunningScans) <= 1
    /\ ~sc_reset

\* C39: after a StopScan call made once the Start*Scan call has returned,
\* the scan takes no new file.
C39_StopIsHonoured == ~sc_late

(* ------------------------------------------------------------------ *)
(* Further claims about the AIDetector result cache                    *)
(* ------------------------------------------------------------------ *)

\* C40: a result is in the cache after UpdateCache only when the
\* inference that produced it succeeded.
C40_OnlySuccessfulInferenceCached == ~d_fifo.failedInference

====
